---- MODULE Spec2Model ----
(***************************************************************************)
(* Automotive report analyzer: the interactive variant (src/app.py) and    *)
(* the CLI variant (src/main.py).  Indicator records, the scorers, the     *)
(* disclosure-quality classification and the analysis pipeline.            *)
(*                                                                         *)
(* Python floats are modelled as exact rationals <<numerator, denominator>>*)
(* in lowest terms; the values the program computes here are quotients of  *)
(* small integers.                                                         *)
(***************************************************************************)
EXTENDS Integers, Sequences, FiniteSets, TLC

VARIABLES
    variant,                \* "app" (src/app.py), "cli" (src/main.py) or a scorer harness
    credential,             \* "OPENAI_API_KEY" in os.environ
    financial_file,         \* a financial report is uploaded / FINANCIAL_PDF_PATH is set
    sustainability_file,    \* a sustainability report is uploaded / SUSTAINABILITY_PDF_PATH is set
    pc,                     \* position in the script
    doc,                    \* the document whose block is executing: "financial", "sustainability", "none"
    fi,                     \* <<>> for None, <<record>> for a FinancialIndicators
    si,                     \* <<>> for None, <<record>> for a SustainabilityIndicators
    f_score,
    s_score,
    f_score_normalized,
    s_score_normalized,
    overall,                \* <<>> while unassigned, <<rational>> once assigned
    quality,                \* <<>> or <<result of compute_disclosure_quality>>
    matrix,                 \* <<>> or <<rows of the rendered 3x3 matrix>>
    tmpfiles,               \* temporary files that exist on disk, as <<run, document>>
    vstores,                \* the documents an index was built from in this run
    calls,                  \* the stages this run executed and the calls it made, in order
    shown,                  \* what this run has displayed or printed, in order
    failed,                 \* <<>> or <<document, stage>> of the exception raised in this run
    runs,                   \* Analyze presses (app) / process starts (cli) so far
    f_resp,                 \* <<>> or <<the generative model's reply to the financial extraction prompt>>
    s_resp,                 \* <<>> or <<its reply to the sustainability extraction prompt>>
    ratio,                  \* argument of to_level in the bucketing harness
    level                   \* its result

vars == <<variant, credential, financial_file, sustainability_file, pc, doc, fi, si,
          f_score, s_score, f_score_normalized, s_score_normalized, overall, quality,
          matrix, tmpfiles, vstores, calls, shown, failed, runs, f_resp, s_resp,
          ratio, level>>

(***************************************************************************)
(* Values                                                                  *)
(***************************************************************************)

\* Python None / JSON null in a score field (scores from the model are >= 0 here).
None == -1

\* The grades the rubric allows.
RubricScores == {None, 0, 1, 2}

\* Largest integer the generative model may put into a score field.
MaxJsonInt == 3

\* Evidence strings the generative model may return.
Evidence == {"", "see p. 12"}

\* Largest denominator of the ratios given to to_level in the bucketing harness.
MaxDen == 20

\* Analyze presses of one interactive session.
MaxRuns == 2

(***************************************************************************)
(* Float arithmetic, as exact rationals                                    *)
(***************************************************************************)

RECURSIVE GCD(_, _)
GCD(a, b) == IF b = 0 THEN a ELSE GCD(b, a % b)

Abs(x) == IF x < 0 THEN -x ELSE x

\* n / d for d > 0, in lowest terms (n and d are evaluated once, as the operands
\* of a float operation are)
Rat(n, d) ==
    CHOOSE q \in {LET g == GCD(Abs(nn), dd) IN <<nn \div g, dd \div g>> :
                     nn \in {n}, dd \in {d}} : TRUE

FloatOfInt(n) == <<n, 1>>
FloatDiv(r, k) == Rat(r[1], r[2] * k)
FloatMul(r, k) == Rat(r[1] * k, r[2])
FloatAdd(r, q) == Rat(r[1] * q[2] + q[1] * r[2], r[2] * q[2])
\* r >= n/d
FloatGE(r, n, d) == r[1] * d >= n * r[2]
FloatLE(r, q) == r[1] * q[2] <= q[1] * r[2]

(***************************************************************************)
(* Data classes                                                            *)
(***************************************************************************)

FinScoreFields ==
    <<"revenue_growth_score", "gross_margin_score", "operating_margin_score",
      "ebitda_margin_score", "fcf_score", "capex_score", "rnd_score", "inventory_score">>

FinEvidenceFields ==
    <<"revenue_growth_evidence", "gross_margin_evidence", "operating_margin_evidence",
      "ebitda_margin_evidence", "fcf_evidence", "capex_evidence", "rnd_evidence",
      "inventory_evidence">>

Range(s) == {s[i] : i \in DOMAIN s}

FinKeys == Range(FinScoreFields) \cup Range(FinEvidenceFields)

\* FinancialIndicators(...): sc and ev give the eight scores and evidence strings
\* in declaration order.
FinancialIndicators(sc, ev) ==
    [revenue_growth_score |-> sc[1],   revenue_growth_evidence |-> ev[1],
     gross_margin_score |-> sc[2],     gross_margin_evidence |-> ev[2],
     operating_margin_score |-> sc[3], operating_margin_evidence |-> ev[3],
     ebitda_margin_score |-> sc[4],    ebitda_margin_evidence |-> ev[4],
     fcf_score |-> sc[5],              fcf_evidence |-> ev[5],
     capex_score |-> sc[6],            capex_evidence |-> ev[6],
     rnd_score |-> sc[7],              rnd_evidence |-> ev[7],
     inventory_score |-> sc[8],        inventory_evidence |-> ev[8]]

SusFlagFields ==
    <<"ghg_scope1_reported", "ghg_scope2_reported", "ghg_scope3_reported",
      "ghg_yoy_change_reported",
      "ev_production_targets", "battery_recycling_reported",
      "ice_phaseout_date_specified", "supply_chain_traceability",
      "claims_have_specificity", "claims_have_supporting_evidence",
      "avoids_excessive_self_praise",
      "water_usage_reported", "hazardous_waste_reported",
      "regulatory_fines_disclosed", "supplier_audit_frequency">>

SusEvidenceFields ==
    <<"ghg_scope1_evidence", "ghg_scope2_evidence", "ghg_scope3_evidence",
      "ghg_yoy_evidence",
      "ev_targets_evidence", "battery_recycling_evidence",
      "ice_phaseout_evidence", "supply_chain_evidence",
      "specificity_evidence", "supporting_evidence", "self_praise_evidence",
      "water_usage_evidence", "hazardous_waste_evidence",
      "fines_evidence", "audit_evidence">>

SusKeys == Range(SusFlagFields) \cup Range(SusEvidenceFields)

\* SustainabilityIndicators(...): fl and ev give the fifteen flags and evidence
\* strings in declaration order.
SustainabilityIndicators(fl, ev) ==
    [ghg_scope1_reported |-> fl[1],              ghg_scope1_evidence |-> ev[1],
     ghg_scope2_reported |-> fl[2],              ghg_scope2_evidence |-> ev[2],
     ghg_scope3_reported |-> fl[3],              ghg_scope3_evidence |-> ev[3],
     ghg_yoy_change_reported |-> fl[4],          ghg_yoy_evidence |-> ev[4],
     ev_production_targets |-> fl[5],            ev_targets_evidence |-> ev[5],
     battery_recycling_reported |-> fl[6],       battery_recycling_evidence |-> ev[6],
     ice_phaseout_date_specified |-> fl[7],      ice_phaseout_evidence |-> ev[7],
     supply_chain_traceability |-> fl[8],        supply_chain_evidence |-> ev[8],
     claims_have_specificity |-> fl[9],          specificity_evidence |-> ev[9],
     claims_have_supporting_evidence |-> fl[10], supporting_evidence |-> ev[10],
     avoids_excessive_self_praise |-> fl[11],    self_praise_evidence |-> ev[11],
     water_usage_reported |-> fl[12],            water_usage_evidence |-> ev[12],
     hazardous_waste_reported |-> fl[13],        hazardous_waste_evidence |-> ev[13],
     regulatory_fines_disclosed |-> fl[14],      fines_evidence |-> ev[14],
     supplier_audit_frequency |-> fl[15],        audit_evidence |-> ev[15]]

(***************************************************************************)
(* Scoring                                                                 *)
(***************************************************************************)

\* compute_financial_score that forgets the last indicator
compute_financial_score_app_droplast(r) ==
    LET s0 == 0
        s1 == IF r.revenue_growth_score # None THEN s0 + r.revenue_growth_score ELSE s0
        s2 == IF r.gross_margin_score # None THEN s1 + r.gross_margin_score ELSE s1
        s3 == IF r.operating_margin_score # None THEN s2 + r.operating_margin_score ELSE s2
        s4 == IF r.ebitda_margin_score # None THEN s3 + r.ebitda_margin_score ELSE s3
        s5 == IF r.fcf_score # None THEN s4 + r.fcf_score ELSE s4
        s6 == IF r.capex_score # None THEN s5 + r.capex_score ELSE s5
        s7 == IF r.rnd_score # None THEN s6 + r.rnd_score ELSE s6
    IN s7

\* src/app.py compute_financial_score
compute_financial_score_app(r) ==
    LET s0 == 0
        s1 == IF r.revenue_growth_score # None THEN s0 + r.revenue_growth_score ELSE s0
        s2 == IF r.gross_margin_score # None THEN s1 + r.gross_margin_score ELSE s1
        s3 == IF r.operating_margin_score # None THEN s2 + r.operating_margin_score ELSE s2
        s4 == IF r.ebitda_margin_score # None THEN s3 + r.ebitda_margin_score ELSE s3
        s5 == IF r.fcf_score # None THEN s4 + r.fcf_score ELSE s4
        s6 == IF r.capex_score # None THEN s5 + r.capex_score ELSE s5
        s7 == IF r.rnd_score # None THEN s6 + r.rnd_score ELSE s6
        s8 == IF r.inventory_score # None THEN s7 + r.inventory_score ELSE s7
    IN s8

\* a scorer that adds fcf_score without testing it for None
compute_financial_score_cli_nonullcheck(r) ==
    LET s0 == 0
        s1 == IF r.revenue_growth_score # None THEN s0 + r.revenue_growth_score ELSE s0
        s2 == IF r.gross_margin_score # None THEN s1 + r.gross_margin_score ELSE s1
        s3 == IF r.operating_margin_score # None THEN s2 + r.operating_margin_score ELSE s2
        s4 == IF r.ebitda_margin_score # None THEN s3 + r.ebitda_margin_score ELSE s3
        s5 == s4 + r.fcf_score
        s6 == IF r.capex_score # None THEN s5 + r.capex_score ELSE s5
        s7 == IF r.rnd_score # None THEN s6 + r.rnd_score ELSE s6
        s8 == IF r.inventory_score # None THEN s7 + r.inventory_score ELSE s7
    IN s8

\* src/main.py compute_financial_score
compute_financial_score_cli(r) ==
    LET s0 == 0
        s1 == IF r.revenue_growth_score # None THEN s0 + r.revenue_growth_score ELSE s0
        s2 == IF r.gross_margin_score # None THEN s1 + r.gross_margin_score ELSE s1
        s3 == IF r.operating_margin_score # None THEN s2 + r.operating_margin_score ELSE s2
        s4 == IF r.ebitda_margin_score # None THEN s3 + r.ebitda_margin_score ELSE s3
        s5 == IF r.fcf_score # None THEN s4 + r.fcf_score ELSE s4
        s6 == IF r.capex_score # None THEN s5 + r.capex_score ELSE s5
        s7 == IF r.rnd_score # None THEN s6 + r.rnd_score ELSE s6
        s8 == IF r.inventory_score # None THEN s7 + r.inventory_score ELSE s7
    IN s8

B2I(b) == IF b THEN 1 ELSE 0

\* a scorer that leaves avoids_excessive_self_praise out of the transparency category
compute_sustainability_score_app_nopraise(r) ==
    LET c1 == B2I(r.ghg_scope1_reported) + B2I(r.ghg_scope2_reported)
              + B2I(r.ghg_scope3_reported) + B2I(r.ghg_yoy_change_reported)
        c2 == c1 + B2I(r.ev_production_targets) + B2I(r.battery_recycling_reported)
              + B2I(r.ice_phaseout_date_specified) + B2I(r.supply_chain_traceability)
        c3 == c2 + B2I(r.claims_have_specificity) + B2I(r.claims_have_supporting_evidence)
        c4 == c3 + B2I(r.water_usage_reported) + B2I(r.hazardous_waste_reported)
              + B2I(r.regulatory_fines_disclosed) + B2I(r.supplier_audit_frequency)
    IN c4

\* src/app.py compute_sustainability_score
compute_sustainability_score_app(r) ==
    LET c1 == B2I(r.ghg_scope1_reported) + B2I(r.ghg_scope2_reported)
              + B2I(r.ghg_scope3_reported) + B2I(r.ghg_yoy_change_reported)
        c2 == c1 + B2I(r.ev_production_targets) + B2I(r.battery_recycling_reported)
              + B2I(r.ice_phaseout_date_specified) + B2I(r.supply_chain_traceability)
        c3 == c2 + B2I(r.claims_have_specificity) + B2I(r.claims_have_supporting_evidence)
              + B2I(r.avoids_excessive_self_praise)
        c4 == c3 + B2I(r.water_usage_reported) + B2I(r.hazardous_waste_reported)
              + B2I(r.regulatory_fines_disclosed) + B2I(r.supplier_audit_frequency)
    IN c4

\* compute_sustainability_score that also counts a non-empty evidence string
compute_sustainability_score_cli_evidence(r) ==
    LET c1 == B2I(r.ghg_scope1_reported) + B2I(r.ghg_scope2_reported)
              + B2I(r.ghg_scope3_reported) + B2I(r.ghg_yoy_change_reported)
        c2 == c1 + B2I(r.ev_production_targets) + B2I(r.battery_recycling_reported)
              + B2I(r.ice_phaseout_date_specified) + B2I(r.supply_chain_traceability)
        c3 == c2 + B2I(r.claims_have_specificity) + B2I(r.claims_have_supporting_evidence)
              + B2I(r.avoids_excessive_self_praise)
        c4 == c3 + B2I(r.water_usage_reported) + B2I(r.hazardous_waste_reported)
              + B2I(r.regulatory_fines_disclosed) + B2I(r.audit_evidence # "")
    IN c4

\* src/main.py compute_sustainability_score
compute_sustainability_score_cli(r) ==
    LET c1 == B2I(r.ghg_scope1_reported) + B2I(r.ghg_scope2_reported)
              + B2I(r.ghg_scope3_reported) + B2I(r.ghg_yoy_change_reported)
        c2 == c1 + B2I(r.ev_production_targets) + B2I(r.battery_recycling_reported)
              + B2I(r.ice_phaseout_date_specified) + B2I(r.supply_chain_traceability)
        c3 == c2 + B2I(r.claims_have_specificity) + B2I(r.claims_have_supporting_evidence)
              + B2I(r.avoids_excessive_self_praise)
        c4 == c3 + B2I(r.water_usage_reported) + B2I(r.hazardous_waste_reported)
              + B2I(r.regulatory_fines_disclosed) + B2I(r.supplier_audit_frequency)
    IN c4

\* which script's scorer runs
compute_financial_score(v, r) ==
    IF v = "cli" THEN compute_financial_score_cli(r) ELSE compute_financial_score_app(r)

compute_sustainability_score(v, r) ==
    IF v = "cli" THEN compute_sustainability_score_cli(r) ELSE compute_sustainability_score_app(r)

\* the financial score normalized with the denominator of the sustainability score
NormalizeFinancial_fifteen(score) == FloatMul(FloatDiv(FloatOfInt(score), 15), 10)

\* f_score_normalized = (f_score / 16) * 10
NormalizeFinancial(score) == FloatMul(FloatDiv(FloatOfInt(score), 16), 10)

\* s_score_normalized = (s_score / 15) * 10
NormalizeSustainability(score) == FloatMul(FloatDiv(FloatOfInt(score), 15), 10)

\* the overall score as the sum of the two normalized scores, not their mean
OverallScore_sum(ff, sf, fn, sn) ==
    IF ff /\ sf THEN FloatAdd(fn, sn)
    ELSE IF ff THEN fn
    ELSE IF sf THEN sn
    ELSE FloatOfInt(0)

\* the if / elif chain that assigns overall
OverallScore(ff, sf, fn, sn) ==
    IF ff /\ sf THEN FloatDiv(FloatAdd(fn, sn), 2)
    ELSE IF ff THEN fn
    ELSE IF sf THEN sn
    ELSE FloatOfInt(0)

(***************************************************************************)
(* Disclosure quality matrix                                               *)
(***************************************************************************)

RECURSIVE SumFlags(_)
SumFlags(s) == IF s = <<>> THEN 0 ELSE B2I(Head(s)) + SumFlags(Tail(s))

\* to_level with the Medium threshold at one half
to_level_half(r) ==
    IF FloatGE(r, 3, 4) THEN "High"
    ELSE IF FloatGE(r, 1, 2) THEN "Medium"
    ELSE "Low"

\* to_level with exclusive lower bounds
to_level_exclusive(r) ==
    IF ~FloatGE(<<3, 4>>, r[1], r[2]) THEN "High"
    ELSE IF ~FloatGE(<<2, 5>>, r[1], r[2]) THEN "Medium"
    ELSE "Low"

to_level(r) ==
    IF FloatGE(r, 3, 4) THEN "High"
    ELSE IF FloatGE(r, 2, 5) THEN "Medium"
    ELSE "Low"

\* completeness_flags with a claim-quality flag in place of the supplier audit flag
completeness_flags_wrongfield(r) ==
    <<r.ghg_scope1_reported, r.ghg_scope2_reported, r.ghg_scope3_reported,
      r.ghg_yoy_change_reported, r.ev_production_targets, r.battery_recycling_reported,
      r.ice_phaseout_date_specified, r.supply_chain_traceability, r.water_usage_reported,
      r.hazardous_waste_reported, r.regulatory_fines_disclosed, r.claims_have_specificity>>

completeness_flags(r) ==
    <<r.ghg_scope1_reported, r.ghg_scope2_reported, r.ghg_scope3_reported,
      r.ghg_yoy_change_reported, r.ev_production_targets, r.battery_recycling_reported,
      r.ice_phaseout_date_specified, r.supply_chain_traceability, r.water_usage_reported,
      r.hazardous_waste_reported, r.regulatory_fines_disclosed, r.supplier_audit_frequency>>

\* reliability flags that take supplier_audit_frequency for avoids_excessive_self_praise
reliability_flags_audit(r) ==
    <<r.claims_have_specificity, r.claims_have_supporting_evidence,
      r.supplier_audit_frequency>>

reliability_flags(r) ==
    <<r.claims_have_specificity, r.claims_have_supporting_evidence,
      r.avoids_excessive_self_praise>>

\* sum(flags) / len(flags) if flags else 0.0
FlagRatio(flags) ==
    IF flags # <<>> THEN FloatDiv(FloatOfInt(SumFlags(flags)), Len(flags)) ELSE FloatOfInt(0)

compute_disclosure_quality(r) ==
    LET completeness_ratio == FlagRatio(completeness_flags(r))
        reliability_ratio == FlagRatio(reliability_flags(r))
    IN [completeness_ratio |-> completeness_ratio,
        reliability_ratio |-> reliability_ratio,
        completeness_level |-> to_level(completeness_ratio),
        reliability_level |-> to_level(reliability_ratio)]

levels == <<"Low", "Medium", "High">>

\* risk_map with the (Low, High) cell one step too lenient
risk_map_lenient(rel, comp) ==
    CASE rel = "Low" /\ comp = "Low" -> <<"High", "#d73027">>
      [] rel = "Low" /\ comp = "Medium" -> <<"High", "#d73027">>
      [] rel = "Low" /\ comp = "High" -> <<"Medium", "#fdae61">>
      [] rel = "Medium" /\ comp = "Low" -> <<"High", "#d73027">>
      [] rel = "Medium" /\ comp = "Medium" -> <<"Medium", "#fdae61">>
      [] rel = "Medium" /\ comp = "High" -> <<"Medium", "#fdae61">>
      [] rel = "High" /\ comp = "Low" -> <<"Med-High", "#f46d43">>
      [] rel = "High" /\ comp = "Medium" -> <<"Medium", "#fdae61">>
      [] rel = "High" /\ comp = "High" -> <<"Low", "#66bd63">>

\* risk_map with the (High, Medium) cell one step too severe
risk_map_severe(rel, comp) ==
    CASE rel = "Low" /\ comp = "Low" -> <<"High", "#d73027">>
      [] rel = "Low" /\ comp = "Medium" -> <<"High", "#d73027">>
      [] rel = "Low" /\ comp = "High" -> <<"Med-High", "#f46d43">>
      [] rel = "Medium" /\ comp = "Low" -> <<"High", "#d73027">>
      [] rel = "Medium" /\ comp = "Medium" -> <<"Medium", "#fdae61">>
      [] rel = "Medium" /\ comp = "High" -> <<"Medium", "#fdae61">>
      [] rel = "High" /\ comp = "Low" -> <<"Med-High", "#f46d43">>
      [] rel = "High" /\ comp = "Medium" -> <<"Med-High", "#f46d43">>
      [] rel = "High" /\ comp = "High" -> <<"Low", "#66bd63">>

\* risk_map[(reliability, completeness)] = (risk label, colour)
risk_map(rel, comp) ==
    CASE rel = "Low" /\ comp = "Low" -> <<"High", "#d73027">>
      [] rel = "Low" /\ comp = "Medium" -> <<"High", "#d73027">>
      [] rel = "Low" /\ comp = "High" -> <<"Med-High", "#f46d43">>
      [] rel = "Medium" /\ comp = "Low" -> <<"High", "#d73027">>
      [] rel = "Medium" /\ comp = "Medium" -> <<"Medium", "#fdae61">>
      [] rel = "Medium" /\ comp = "High" -> <<"Medium", "#fdae61">>
      [] rel = "High" /\ comp = "Low" -> <<"Med-High", "#f46d43">>
      [] rel = "High" /\ comp = "Medium" -> <<"Medium", "#fdae61">>
      [] rel = "High" /\ comp = "High" -> <<"Low", "#66bd63">>

\* The table rows, top row first (reversed(levels)), each row's cells in the
\* order of levels; the company's cell is marked.
render_disclosure_matrix(q) ==
    [i \in 1..3 |->
        LET rel == levels[4 - i] IN
        [j \in 1..3 |->
            LET comp == levels[j]
                cell == risk_map(rel, comp)
            IN [rel |-> rel, comp |-> comp, risk_label |-> cell[1], bg_color |-> cell[2],
                is_company_cell |-> (rel = q.reliability_level /\ comp = q.completeness_level)]]]

\* the cells of a rendered matrix
MatrixCells(m) == {m[i][j] : i \in 1..3, j \in 1..3}

(***************************************************************************)
(* Extraction: the generative model's reply and its parsing                *)
(***************************************************************************)

\* A reply is text that is not JSON, a JSON value that is not an object, or a
\* JSON object `data` (a function from its keys to their values).
NotJson == [kind |-> "text", data |-> <<>>]
JsonArray == [kind |-> "array", data |-> <<>>]
JsonObject(d) == [kind |-> "object", data |-> d]

\* d without key k
WithoutKey(d, k) == [x \in (DOMAIN d) \ {k} |-> d[x]]

\* d with one more key
WithKey(d, k, v) == [x \in (DOMAIN d) \cup {k} |-> IF x = k THEN v ELSE d[x]]

Raised(e) == [raised |-> e, value |-> <<>>]
Returned(v) == [raised |-> "", value |-> <<v>>]

\* json.loads(resp.content) followed by FinancialIndicators(k=data["k"], ...)
ParseFinancial(resp) ==
    IF resp.kind = "text" THEN Raised("JSONDecodeError")
    ELSE IF resp.kind # "object" THEN Raised("TypeError")
    ELSE IF \E k \in FinKeys : k \notin DOMAIN resp.data THEN Raised("KeyError")
    ELSE Returned(FinancialIndicators(
                    [i \in 1..8 |-> resp.data[FinScoreFields[i]]],
                    [i \in 1..8 |-> resp.data[FinEvidenceFields[i]]]))

\* a parser that reads the keys with data.get(k, default)
ParseSustainability_defaults(resp) ==
    IF resp.kind = "text" THEN Raised("JSONDecodeError")
    ELSE IF resp.kind # "object" THEN Raised("TypeError")
    ELSE Returned(SustainabilityIndicators(
                    [i \in 1..15 |-> IF SusFlagFields[i] \in DOMAIN resp.data
                                     THEN resp.data[SusFlagFields[i]] ELSE FALSE],
                    [i \in 1..15 |-> IF SusEvidenceFields[i] \in DOMAIN resp.data
                                     THEN resp.data[SusEvidenceFields[i]] ELSE ""]))

\* json.loads(resp.content) followed by SustainabilityIndicators(k=data["k"], ...)
ParseSustainability(resp) ==
    IF resp.kind = "text" THEN Raised("JSONDecodeError")
    ELSE IF resp.kind # "object" THEN Raised("TypeError")
    ELSE IF \E k \in SusKeys : k \notin DOMAIN resp.data THEN Raised("KeyError")
    ELSE Returned(SustainabilityIndicators(
                    [i \in 1..15 |-> resp.data[SusFlagFields[i]]],
                    [i \in 1..15 |-> resp.data[SusEvidenceFields[i]]]))

(***************************************************************************)
(* The generative model's replies in the analysis pipeline                 *)
(***************************************************************************)

\* Eight scores that sum to t when bad = 0: 2s first, then a 1 if t is odd, the
\* rest `filler` (null or 0); bad > 0 puts the out-of-rubric integer 2 + bad in
\* the first score.
LadderScores(t, filler, bad) ==
    [i \in 1..8 |->
        IF i = 1 /\ bad > 0 THEN 2 + bad
        ELSE IF i <= t \div 2 THEN 2
        ELSE IF i = (t \div 2) + 1 /\ t % 2 = 1 THEN 1
        ELSE filler]

SomeEvidence(n) == [i \in 1..n |-> "see p. 12"]

\* JSON objects with all 16 financial keys
FinObjects ==
    {FinancialIndicators(LadderScores(t, filler, bad), SomeEvidence(8)) :
        t \in 0..16, filler \in {None, 0}, bad \in 0..(MaxJsonInt - 2)}

\* c of the 12 completeness flags and r of the 3 claim-quality flags true
LadderFlags(c, r) ==
    [i \in 1..15 |->
        IF i <= 8 THEN i <= c
        ELSE IF i <= 11 THEN i - 8 <= r
        ELSE i - 3 <= c]

\* JSON objects with all 30 sustainability keys
SusObjects ==
    {SustainabilityIndicators(LadderFlags(c, r), SomeEvidence(15)) : c \in 0..12, r \in 0..3}

FinSample == FinancialIndicators(LadderScores(9, None, 0), SomeEvidence(8))
SusSample == SustainabilityIndicators(LadderFlags(8, 3), SomeEvidence(15))

\* what chain.invoke may return to the financial extraction prompt
FinResponses ==
    {NotJson, JsonArray}
    \cup {JsonObject(d) : d \in FinObjects}
    \cup {JsonObject(WithoutKey(FinSample, k)) : k \in FinKeys}
    \cup {JsonObject(WithKey(FinSample, "notes", "n/a"))}

\* what chain.invoke may return to the sustainability extraction prompt
SusResponses ==
    {NotJson, JsonArray}
    \cup {JsonObject(d) : d \in SusObjects}
    \cup {JsonObject(WithoutKey(SusSample, k)) : k \in SusKeys}
    \cup {JsonObject(WithKey(SusSample, "notes", "n/a"))}

(***************************************************************************)
(* The analysis pipeline: main() of src/app.py and of src/main.py          *)
(***************************************************************************)

Call(op, d, arg) == [op |-> op, doc |-> d, arg |-> arg]
Item(what, d, val) == [item |-> what, doc |-> d, value |-> val]

\* the first statement of a document's block
FirstStage == IF variant = "app" THEN "tmp" ELSE "load"

Init ==
    /\ variant \in {"app", "cli"}
    /\ credential \in BOOLEAN
    /\ financial_file \in (IF variant = "cli" THEN BOOLEAN ELSE {FALSE})
    /\ sustainability_file \in (IF variant = "cli" THEN BOOLEAN ELSE {FALSE})
    /\ pc = "start"
    /\ doc = "none"
    /\ fi = <<>>
    /\ si = <<>>
    /\ f_score = 0
    /\ s_score = 0
    /\ f_score_normalized = FloatOfInt(0)
    /\ s_score_normalized = FloatOfInt(0)
    /\ overall = <<>>
    /\ quality = <<>>
    /\ matrix = <<>>
    /\ tmpfiles = {}
    /\ vstores = {}
    /\ calls = <<>>
    /\ shown = <<>>
    /\ failed = <<>>
    /\ runs = 0
    /\ f_resp = <<>>
    /\ s_resp = <<>>
    /\ ratio = FloatOfInt(0)
    /\ level = ""

\* a start-up that does not look at the environment
CheckCredential_ignore ==
    /\ pc = "start"
    /\ pc' = (IF variant = "app" THEN "idle" ELSE "main")
    /\ UNCHANGED <<variant, credential, financial_file, sustainability_file, doc, fi, si,
                   f_score, s_score, f_score_normalized, s_score_normalized, overall,
                   quality, matrix, tmpfiles, vstores, calls, shown, failed, runs,
                   f_resp, s_resp, ratio, level>>

\* module level: if "OPENAI_API_KEY" not in os.environ
CheckCredential ==
    /\ pc = "start"
    /\ IF credential
       THEN /\ pc' = (IF variant = "app" THEN "idle" ELSE "main")
            /\ UNCHANGED <<shown, failed>>
       ELSE IF variant = "app"
       THEN /\ pc' = "stopped"
            /\ shown' = Append(shown, Item("error", "config", <<>>))
            /\ UNCHANGED failed
       ELSE /\ pc' = "crashed"
            /\ failed' = <<"config", "credential">>
            /\ UNCHANGED shown
    /\ UNCHANGED <<variant, credential, financial_file, sustainability_file, doc, fi, si,
                   f_score, s_score, f_score_normalized, s_score_normalized, overall,
                   quality, matrix, tmpfiles, vstores, calls, runs, f_resp, s_resp, ratio,
                   level>>

\* an exception no handler catches, whatever the variant: the process ends
OnException_crash(d, stage, sh, cs) ==
    /\ failed' = <<d, stage>>
    /\ calls' = cs
    /\ pc' = "crashed"
    /\ shown' = sh

\* a handler that starts the failed document over
OnException_retry(d, stage, sh, cs) ==
    /\ failed' = <<d, stage>>
    /\ calls' = cs
    /\ pc' = "load"
    /\ shown' = sh

\* an exception handler that reports the error and carries on with the results
OnException_carryon(d, stage, sh, cs) ==
    /\ failed' = <<d, stage>>
    /\ calls' = cs
    /\ pc' = "overall"
    /\ shown' = Append(sh, Item("error", d, stage))

\* An exception raised in stage `stage` of document d, after the run displayed sh
\* and made the calls cs.  app: caught by the try of main(), shown with st.error and
\* st.exception.  cli: uncaught, the process ends.
OnException(d, stage, sh, cs) ==
    /\ failed' = <<d, stage>>
    /\ calls' = cs
    /\ IF variant = "app"
       THEN /\ pc' = "done"
            /\ shown' = sh \o <<Item("error", d, stage), Item("exception", d, stage)>>
       ELSE /\ pc' = "crashed"
            /\ shown' = sh

\* Leaving the financial block, or skipping it: on to the sustainability block.
EnterSustainability(sh) ==
    IF sustainability_file
    THEN /\ doc' = "sustainability"
         /\ pc' = FirstStage
         /\ shown' = sh
    ELSE /\ doc' = "none"
         /\ pc' = "overall"
         /\ shown' = (IF variant = "cli"
                      THEN Append(sh, Item("skipped", "sustainability", <<>>)) ELSE sh)

\* Leaving a document's block.
LeaveBlock(sh) ==
    IF doc = "financial"
    THEN EnterSustainability(sh)
    ELSE /\ doc' = "none"
         /\ pc' = "overall"
         /\ shown' = sh

\* an Analyze handler without the test for uploaded files
PressAnalyze_nocheck(ff, sf) ==
    /\ variant = "app"
    /\ pc \in {"idle", "done"}
    /\ runs < MaxRuns
    /\ runs' = runs + 1
    /\ financial_file' = ff
    /\ sustainability_file' = sf
    /\ fi' = <<>>
    /\ si' = <<>>
    /\ f_score' = 0
    /\ s_score' = 0
    /\ f_score_normalized' = FloatOfInt(0)
    /\ s_score_normalized' = FloatOfInt(0)
    /\ overall' = <<>>
    /\ quality' = <<>>
    /\ matrix' = <<>>
    /\ vstores' = {}
    /\ failed' = <<>>
    /\ f_resp' = <<>>
    /\ s_resp' = <<>>
    /\ shown' = <<>>
    /\ calls' = <<Call("get_llm", "none", 0)>>
    /\ doc' = (IF ff THEN "financial" ELSE IF sf THEN "sustainability" ELSE "none")
    /\ pc' = (IF ff \/ sf THEN "tmp" ELSE "overall")
    /\ UNCHANGED <<variant, credential, tmpfiles, ratio, level>>

\* app: the Analyze button is pressed with the uploads ff, sf
PressAnalyze(ff, sf) ==
    /\ variant = "app"
    /\ pc \in {"idle", "done"}
    /\ runs < MaxRuns
    /\ runs' = runs + 1
    /\ financial_file' = ff
    /\ sustainability_file' = sf
    /\ fi' = <<>>
    /\ si' = <<>>
    /\ f_score' = 0
    /\ s_score' = 0
    /\ f_score_normalized' = FloatOfInt(0)
    /\ s_score_normalized' = FloatOfInt(0)
    /\ overall' = <<>>
    /\ quality' = <<>>
    /\ matrix' = <<>>
    /\ vstores' = {}
    /\ failed' = <<>>
    /\ f_resp' = <<>>
    /\ s_resp' = <<>>
    /\ IF ~ff /\ ~sf
       THEN /\ shown' = <<Item("error", "none", "no report")>>
            /\ calls' = <<>>
            /\ doc' = "none"
            /\ pc' = "done"
       ELSE /\ shown' = <<>>
            /\ calls' = <<Call("get_llm", "none", 0)>>
            /\ doc' = (IF ff THEN "financial" ELSE "sustainability")
            /\ pc' = "tmp"
    /\ UNCHANGED <<variant, credential, tmpfiles, ratio, level>>

Analyze == \E ff, sf \in BOOLEAN : PressAnalyze(ff, sf)

\* cli: main() starts
StartMain ==
    /\ variant = "cli"
    /\ pc = "main"
    /\ runs' = runs + 1
    /\ IF financial_file
       THEN /\ doc' = "financial"
            /\ pc' = "load"
            /\ UNCHANGED shown
       ELSE EnterSustainability(Append(shown, Item("skipped", "financial", <<>>)))
    /\ UNCHANGED <<variant, credential, financial_file, sustainability_file, fi, si,
                   f_score, s_score, f_score_normalized, s_score_normalized, overall,
                   quality, matrix, tmpfiles, vstores, calls, failed, f_resp, s_resp,
                   ratio, level>>

\* app: the upload is written to a NamedTemporaryFile(delete=False)
SaveTemp ==
    /\ pc = "tmp"
    /\ tmpfiles' = tmpfiles \cup {<<runs, doc>>}
    /\ calls' = Append(calls, Call("tmp", doc, 0))
    /\ pc' = "load"
    /\ UNCHANGED <<variant, credential, financial_file, sustainability_file, doc, fi, si,
                   f_score, s_score, f_score_normalized, s_score_normalized, overall,
                   quality, matrix, vstores, shown, failed, runs, f_resp, s_resp, ratio,
                   level>>

\* a loader whose failure is swallowed: the run goes on to split and index
Load_swallow ==
    /\ pc = "load"
    /\ calls' = Append(calls, Call("load", doc, 0))
    /\ pc' = "split"
    /\ \E ok \in BOOLEAN :
          failed' = (IF ok THEN failed ELSE <<doc, "load">>)
    /\ UNCHANGED <<variant, credential, financial_file, sustainability_file, doc, fi, si,
                   f_score, s_score, f_score_normalized, s_score_normalized, overall,
                   quality, matrix, tmpfiles, vstores, shown, runs, f_resp, s_resp,
                   ratio, level>>

\* build_vectorstore_from_pdf: loader.load()
Load ==
    /\ pc = "load"
    /\ \E ok \in BOOLEAN :
          IF ok
          THEN /\ calls' = Append(calls, Call("load", doc, 0))
               /\ pc' = "split"
               /\ UNCHANGED <<shown, failed>>
          ELSE OnException(doc, "load", shown, Append(calls, Call("load", doc, 0)))
    /\ UNCHANGED <<variant, credential, financial_file, sustainability_file, doc, fi, si,
                   f_score, s_score, f_score_normalized, s_score_normalized, overall,
                   quality, matrix, tmpfiles, vstores, runs, f_resp, s_resp, ratio, level>>

\* a splitter after which retrieval starts without the index being built
Split_skipindex ==
    /\ pc = "split"
    /\ calls' = Append(calls, Call("split", doc, IF variant = "app" THEN 1000 ELSE 1500))
    /\ pc' = "retrieve1"
    /\ UNCHANGED <<variant, credential, financial_file, sustainability_file, doc, fi, si,
                   f_score, s_score, f_score_normalized, s_score_normalized, overall,
                   quality, matrix, tmpfiles, vstores, shown, failed, runs, f_resp, s_resp,
                   ratio, level>>

\* build_vectorstore_from_pdf: splitter.split_documents(documents)
Split ==
    /\ pc = "split"
    /\ calls' = Append(calls, Call("split", doc, IF variant = "app" THEN 1000 ELSE 1500))
    /\ pc' = "embed"
    /\ UNCHANGED <<variant, credential, financial_file, sustainability_file, doc, fi, si,
                   f_score, s_score, f_score_normalized, s_score_normalized, overall,
                   quality, matrix, tmpfiles, vstores, shown, failed, runs, f_resp, s_resp,
                   ratio, level>>

\* build_vectorstore_from_pdf: FAISS.from_documents(chunks, OpenAIEmbeddings());
\* cli: then llm = get_llm()
Embed ==
    /\ pc = "embed"
    /\ \E ok \in BOOLEAN :
          IF ok
          THEN /\ vstores' = vstores \cup {doc}
               /\ calls' = (IF variant = "cli"
                            THEN calls \o <<Call("embed", doc, 0), Call("get_llm", "none", 0)>>
                            ELSE Append(calls, Call("embed", doc, 0)))
               /\ pc' = "retrieve1"
               /\ UNCHANGED <<shown, failed>>
          ELSE /\ OnException(doc, "embed", shown, Append(calls, Call("embed", doc, 0)))
               /\ UNCHANGED vstores
    /\ UNCHANGED <<variant, credential, financial_file, sustainability_file, doc, fi, si,
                   f_score, s_score, f_score_normalized, s_score_normalized, overall,
                   quality, matrix, tmpfiles, runs, f_resp, s_resp, ratio, level>>

\* the retrieval passes of a document's extraction, as <<topic, k>>
Retrievals(d) ==
    IF d = "financial"
    THEN <<(<<"financial metrics", 10>>)>>
    ELSE <<(<<"ghg", 8>>), (<<"automotive targets", 8>>), (<<"claims and compliance", 8>>)>>

\* retrieve_context: the n-th similarity search of the document's extraction
Retrieve(n) ==
    /\ pc = (CASE n = 1 -> "retrieve1" [] n = 2 -> "retrieve2" [] n = 3 -> "retrieve3")
    /\ n <= Len(Retrievals(doc))
    /\ \E ok \in BOOLEAN :
          IF ok
          THEN /\ calls' = Append(calls, Call("retrieve", doc, Retrievals(doc)[n]))
               /\ pc' = (IF n = Len(Retrievals(doc)) THEN "llm"
                         ELSE IF n = 1 THEN "retrieve2" ELSE "retrieve3")
               /\ UNCHANGED <<shown, failed>>
          ELSE OnException(doc, "retrieve", shown,
                           Append(calls, Call("retrieve", doc, Retrievals(doc)[n])))
    /\ UNCHANGED <<variant, credential, financial_file, sustainability_file, doc, fi, si,
                   f_score, s_score, f_score_normalized, s_score_normalized, overall,
                   quality, matrix, tmpfiles, vstores, runs, f_resp, s_resp, ratio, level>>

\* a context that puts the automotive passage before the GHG passage
combined_context_swapped(d) ==
    IF d = "financial"
    THEN <<Retrievals(d)[1]>>
    ELSE <<Retrievals(d)[2], Retrievals(d)[1], Retrievals(d)[3]>>

\* the context sent to the extraction call, as the passes it is made of:
\* financial: context; sustainability:
\* combined_context = f"{ghg_context}\n\n{auto_context}\n\n{quality_context}"
combined_context(d) ==
    IF d = "financial"
    THEN <<Retrievals(d)[1]>>
    ELSE <<Retrievals(d)[1], Retrievals(d)[2], Retrievals(d)[3]>>

RetrieveContext == \E n \in 1..3 : Retrieve(n)

\* extract_financial_indicators from chain.invoke on: the reply resp, or a
\* service error when resp = <<>>
ExtractFinancial(resp) ==
    /\ pc = "llm"
    /\ doc = "financial"
    /\ IF resp = <<>>
       THEN /\ OnException(doc, "llm", shown, Append(calls, Call("llm", doc, combined_context(doc))))
            /\ UNCHANGED <<fi, f_resp>>
       ELSE LET res == ParseFinancial(resp[1]) IN
            /\ f_resp' = resp
            /\ IF res.raised # ""
               THEN /\ OnException(doc, "parse", shown,
                                   Append(calls, Call("llm", doc, combined_context(doc))))
                    /\ UNCHANGED fi
               ELSE /\ fi' = res.value
                    /\ calls' = Append(calls, Call("llm", doc, combined_context(doc)))
                    /\ pc' = "score"
                    /\ UNCHANGED <<shown, failed>>
    /\ UNCHANGED <<variant, credential, financial_file, sustainability_file, doc, si,
                   f_score, s_score, f_score_normalized, s_score_normalized, overall,
                   quality, matrix, tmpfiles, vstores, runs, s_resp, ratio, level>>

\* extract_sustainability_indicators from chain.invoke on
ExtractSustainability(resp) ==
    /\ pc = "llm"
    /\ doc = "sustainability"
    /\ IF resp = <<>>
       THEN /\ OnException(doc, "llm", shown, Append(calls, Call("llm", doc, combined_context(doc))))
            /\ UNCHANGED <<si, s_resp>>
       ELSE LET res == ParseSustainability(resp[1]) IN
            /\ s_resp' = resp
            /\ IF res.raised # ""
               THEN /\ OnException(doc, "parse", shown,
                                   Append(calls, Call("llm", doc, combined_context(doc))))
                    /\ UNCHANGED si
               ELSE /\ si' = res.value
                    /\ calls' = Append(calls, Call("llm", doc, combined_context(doc)))
                    /\ pc' = "score"
                    /\ UNCHANGED <<shown, failed>>
    /\ UNCHANGED <<variant, credential, financial_file, sustainability_file, doc, fi,
                   f_score, s_score, f_score_normalized, s_score_normalized, overall,
                   quality, matrix, tmpfiles, vstores, runs, f_resp, ratio, level>>

Extract ==
    \/ \E resp \in {<<>>} \cup {<<x>> : x \in FinResponses} : ExtractFinancial(resp)
    \/ \E resp \in {<<>>} \cup {<<x>> : x \in SusResponses} : ExtractSustainability(resp)

\* a sustainability block pasted from the financial one that still assigns the
\* financial score variables
Score_pasted ==
    /\ pc = "score"
    /\ IF doc = "financial"
       THEN /\ f_score' = compute_financial_score(variant, fi[1])
            /\ f_score_normalized' = NormalizeFinancial(f_score')
            /\ UNCHANGED <<s_score, s_score_normalized>>
       ELSE /\ f_score' = compute_sustainability_score(variant, si[1])
            /\ f_score_normalized' = NormalizeSustainability(f_score')
            /\ UNCHANGED <<s_score, s_score_normalized>>
    /\ calls' = Append(calls, Call("score", doc, 0))
    /\ IF variant = "app"
       THEN /\ pc' = "unlink"
            /\ UNCHANGED <<doc, shown>>
       ELSE LeaveBlock(shown)
    /\ UNCHANGED <<variant, credential, financial_file, sustainability_file, fi, si,
                   overall, quality, matrix, tmpfiles, vstores, failed, runs, f_resp,
                   s_resp, ratio, level>>

\* f_score = compute_financial_score(fi); f_score_normalized = (f_score / 16) * 10
\* s_score = compute_sustainability_score(si); s_score_normalized = (s_score / 15) * 10
Score ==
    /\ pc = "score"
    /\ IF doc = "financial"
       THEN /\ f_score' = compute_financial_score(variant, fi[1])
            /\ f_score_normalized' = NormalizeFinancial(f_score')
            /\ UNCHANGED <<s_score, s_score_normalized>>
       ELSE /\ s_score' = compute_sustainability_score(variant, si[1])
            /\ s_score_normalized' = NormalizeSustainability(s_score')
            /\ UNCHANGED <<f_score, f_score_normalized>>
    /\ calls' = Append(calls, Call("score", doc, 0))
    /\ IF variant = "app"
       THEN /\ pc' = "unlink"
            /\ UNCHANGED <<doc, shown>>
       ELSE LeaveBlock(shown)
    /\ UNCHANGED <<variant, credential, financial_file, sustainability_file, fi, si,
                   overall, quality, matrix, tmpfiles, vstores, failed, runs, f_resp,
                   s_resp, ratio, level>>

\* an unlink that always removes the temporary file of the financial upload
Unlink_wrongfile ==
    /\ pc = "unlink"
    /\ tmpfiles' = tmpfiles \ {<<runs, "financial">>}
    /\ calls' = Append(calls, Call("unlink", doc, 0))
    /\ LeaveBlock(Append(shown, Item("success", doc, <<>>)))
    /\ UNCHANGED <<variant, credential, financial_file, sustainability_file, fi, si,
                   f_score, s_score, f_score_normalized, s_score_normalized, overall,
                   quality, matrix, vstores, failed, runs, f_resp, s_resp, ratio, level>>

\* app: os.unlink of the temporary file, then st.success
Unlink ==
    /\ pc = "unlink"
    /\ tmpfiles' = tmpfiles \ {<<runs, doc>>}
    /\ calls' = Append(calls, Call("unlink", doc, 0))
    /\ LeaveBlock(Append(shown, Item("success", doc, <<>>)))
    /\ UNCHANGED <<variant, credential, financial_file, sustainability_file, fi, si,
                   f_score, s_score, f_score_normalized, s_score_normalized, overall,
                   quality, matrix, vstores, failed, runs, f_resp, s_resp, ratio, level>>

\* "Calculate overall score"
ComputeOverall ==
    /\ pc = "overall"
    /\ overall' = <<OverallScore(financial_file, sustainability_file,
                                 f_score_normalized, s_score_normalized)>>
    /\ shown' = (IF ~financial_file /\ ~sustainability_file
                 THEN Append(shown, Item("error", "none", "no reports")) ELSE shown)
    /\ pc' = "display"
    /\ UNCHANGED <<variant, credential, financial_file, sustainability_file, doc, fi, si,
                   f_score, s_score, f_score_normalized, s_score_normalized, quality,
                   matrix, tmpfiles, vstores, calls, failed, runs, f_resp, s_resp, ratio,
                   level>>

\* a score as the breakdown shows it: <<>> stands for 'N/A'
ShownScore(v) == IF v # None THEN <<v>> ELSE <<>>

FinancialBreakdown(r) == [i \in 1..8 |-> ShownScore(r[FinScoreFields[i]])]

SustainabilityBreakdown(r) ==
    << SumFlags(<<r.ghg_scope1_reported, r.ghg_scope2_reported, r.ghg_scope3_reported,
                  r.ghg_yoy_change_reported>>),
       SumFlags(<<r.ev_production_targets, r.battery_recycling_reported,
                  r.ice_phaseout_date_specified, r.supply_chain_traceability>>),
       SumFlags(<<r.claims_have_specificity, r.claims_have_supporting_evidence,
                  r.avoids_excessive_self_praise>>),
       SumFlags(<<r.water_usage_reported, r.hazardous_waste_reported,
                  r.regulatory_fines_disclosed, r.supplier_audit_frequency>>) >>

\* x if cond else nothing
When(cond, x) == IF cond THEN <<x>> ELSE <<>>

\* app: the score panels, the breakdowns and the disclosure matrix
Display ==
    /\ variant = "app"
    /\ pc = "display"
    /\ quality' = (IF si # <<>> THEN <<compute_disclosure_quality(si[1])>> ELSE quality)
    /\ matrix' = (IF si # <<>> THEN <<render_disclosure_matrix(quality'[1])>> ELSE matrix)
    /\ shown' = shown
          \o <<IF fi # <<>>
               THEN Item("score", "financial", <<f_score, f_score_normalized>>)
               ELSE Item("score_na", "financial", <<>>)>>
          \o <<IF si # <<>>
               THEN Item("score", "sustainability", <<s_score, s_score_normalized>>)
               ELSE Item("score_na", "sustainability", <<>>)>>
          \o <<IF fi # <<>> \/ si # <<>>
               THEN Item("overall", "both", overall[1])
               ELSE Item("score_na", "both", <<>>)>>
          \o When(fi # <<>>, Item("breakdown", "financial", FinancialBreakdown(fi[1])))
          \o When(si # <<>>, Item("breakdown", "sustainability", SustainabilityBreakdown(si[1])))
          \o When(si # <<>>, Item("matrix", "sustainability", matrix'))
          \o When(fi # <<>> /\ si = <<>>, Item("info", "sustainability", "upload"))
          \o When(fi = <<>> /\ si # <<>>, Item("info", "financial", "upload"))
    /\ pc' = (IF fi # <<>> /\ si # <<>> THEN "summary" ELSE "raw")
    /\ UNCHANGED <<variant, credential, financial_file, sustainability_file, doc, fi, si,
                   f_score, s_score, f_score_normalized, s_score_normalized, overall,
                   tmpfiles, vstores, calls, failed, runs, f_resp, s_resp, ratio, level>>

\* a cli that summarises whenever a financial path is configured
PrintResults_gate_financial ==
    /\ variant = "cli"
    /\ pc = "display"
    /\ shown' = shown
          \o When(fi # <<>>, Item("raw", "financial", fi))
          \o When(si # <<>>, Item("raw", "sustainability", si))
          \o When(financial_file /\ fi # <<>>,
                  Item("score", "financial", <<f_score, f_score_normalized>>))
          \o When(financial_file /\ fi # <<>>,
                  Item("breakdown", "financial", FinancialBreakdown(fi[1])))
          \o When(sustainability_file /\ si # <<>>,
                  Item("score", "sustainability", <<s_score, s_score_normalized>>))
          \o When(sustainability_file /\ si # <<>>,
                  Item("breakdown", "sustainability", SustainabilityBreakdown(si[1])))
          \o When(financial_file \/ sustainability_file, Item("overall", "both", overall[1]))
          \o When(financial_file /\ ~sustainability_file, Item("info", "sustainability", "add"))
          \o When(~financial_file /\ sustainability_file, Item("info", "financial", "add"))
    /\ pc' = (IF financial_file THEN "summary" ELSE "done")
    /\ UNCHANGED <<variant, credential, financial_file, sustainability_file, doc, fi, si,
                   f_score, s_score, f_score_normalized, s_score_normalized, overall,
                   quality, matrix, tmpfiles, vstores, calls, failed, runs, f_resp, s_resp,
                   ratio, level>>

\* cli: the raw indicators, the score lines and the overall score are printed
PrintResults ==
    /\ variant = "cli"
    /\ pc = "display"
    /\ shown' = shown
          \o When(fi # <<>>, Item("raw", "financial", fi))
          \o When(si # <<>>, Item("raw", "sustainability", si))
          \o When(financial_file /\ fi # <<>>,
                  Item("score", "financial", <<f_score, f_score_normalized>>))
          \o When(financial_file /\ fi # <<>>,
                  Item("breakdown", "financial", FinancialBreakdown(fi[1])))
          \o When(sustainability_file /\ si # <<>>,
                  Item("score", "sustainability", <<s_score, s_score_normalized>>))
          \o When(sustainability_file /\ si # <<>>,
                  Item("breakdown", "sustainability", SustainabilityBreakdown(si[1])))
          \o When(financial_file \/ sustainability_file, Item("overall", "both", overall[1]))
          \o When(financial_file /\ ~sustainability_file, Item("info", "sustainability", "add"))
          \o When(~financial_file /\ sustainability_file, Item("info", "financial", "add"))
    /\ pc' = (IF financial_file /\ sustainability_file THEN "summary" ELSE "done")
    /\ UNCHANGED <<variant, credential, financial_file, sustainability_file, doc, fi, si,
                   f_score, s_score, f_score_normalized, s_score_normalized, overall,
                   quality, matrix, tmpfiles, vstores, calls, failed, runs, f_resp, s_resp,
                   ratio, level>>

\* generate_summary: the payload sent to the model
SummaryPayload(fs, ss, f, s) ==
    LET fn == FloatMul(FloatDiv(FloatOfInt(fs), 16), 10)
        sn == FloatMul(FloatDiv(FloatOfInt(ss), 15), 10)
    IN [financial_score |-> fs, financial_score_out_of |-> 16,
        financial_score_normalized |-> fn,
        sustainability_score |-> ss, sustainability_score_out_of |-> 15,
        sustainability_score_normalized |-> sn,
        overall_score |-> FloatDiv(FloatAdd(fn, sn), 2),
        financial_indicators |-> f, sustainability_indicators |-> s]

\* generate_summary(llm, f_score, s_score, fi, si) and the display of its result;
\* cli: after llm = get_llm()
Summarize ==
    /\ pc = "summary"
    /\ LET cs == (IF variant = "cli" THEN Append(calls, Call("get_llm", "none", 0)) ELSE calls)
               \o <<Call("llm", "both", SummaryPayload(f_score, s_score, fi[1], si[1]))>>
       IN \E ok \in BOOLEAN :
             IF ok
             THEN /\ calls' = cs
                  /\ shown' = shown \o <<Item("summary", "both", "text")>>
                                    \o When(variant = "app", Item("download", "both", "text"))
                  /\ pc' = (IF variant = "app" THEN "raw" ELSE "done")
                  /\ UNCHANGED failed
             ELSE OnException("both", "summary", shown, cs)
    /\ UNCHANGED <<variant, credential, financial_file, sustainability_file, doc, fi, si,
                   f_score, s_score, f_score_normalized, s_score_normalized, overall,
                   quality, matrix, tmpfiles, vstores, runs, f_resp, s_resp, ratio, level>>

\* app: the expandable raw indicators
ShowRaw ==
    /\ variant = "app"
    /\ pc = "raw"
    /\ shown' = shown
          \o When(fi # <<>>, Item("raw", "financial", fi))
          \o When(si # <<>>, Item("raw", "sustainability", si))
    /\ pc' = "done"
    /\ UNCHANGED <<variant, credential, financial_file, sustainability_file, doc, fi, si,
                   f_score, s_score, f_score_normalized, s_score_normalized, overall,
                   quality, matrix, tmpfiles, vstores, calls, failed, runs, f_resp, s_resp,
                   ratio, level>>

Next ==
    \/ CheckCredential
    \/ Analyze
    \/ StartMain
    \/ SaveTemp
    \/ Load
    \/ Split
    \/ Embed
    \/ RetrieveContext
    \/ Extract
    \/ Score
    \/ Unlink
    \/ ComputeOverall
    \/ Display
    \/ PrintResults
    \/ Summarize
    \/ ShowRaw

Spec == Init /\ [][Next]_vars


(***************************************************************************)
(* Scorer harnesses: a record is given and the scorers are applied to it   *)
(***************************************************************************)

\* chain.invoke of an extraction raises, returns text that is not JSON, or
\* returns a well-formed object
ExtractOnce ==
    \/ \E resp \in {<<>>, <<NotJson>>, <<JsonObject(FinSample)>>} : ExtractFinancial(resp)
    \/ \E resp \in {<<>>, <<NotJson>>, <<JsonObject(SusSample)>>} : ExtractSustainability(resp)

\* the steps a started script takes by itself; pressing Analyze is up to the user
RunStep ==
    \/ CheckCredential
    \/ StartMain
    \/ SaveTemp
    \/ Load
    \/ Split
    \/ Embed
    \/ RetrieveContext
    \/ ExtractOnce
    \/ Score
    \/ Unlink
    \/ ComputeOverall
    \/ Display
    \/ PrintResults
    \/ Summarize
    \/ ShowRaw

NextLive == Analyze \/ RunStep

\* every statement of a script is executed once it is reached, and every
\* external call returns or raises
SpecLive == Init /\ [][NextLive]_vars /\ WF_vars(RunStep)

NoEvidence(n) == [i \in 1..n |-> ""]

\* everything but the record under test, as a script leaves it before any analysis
HarnessRest ==
    /\ credential = TRUE
    /\ financial_file = FALSE
    /\ sustainability_file = FALSE
    /\ doc = "none"
    /\ f_score = 0
    /\ s_score = 0
    /\ f_score_normalized = FloatOfInt(0)
    /\ s_score_normalized = FloatOfInt(0)
    /\ overall = <<>>
    /\ quality = <<>>
    /\ matrix = <<>>
    /\ tmpfiles = {}
    /\ vstores = {}
    /\ calls = <<>>
    /\ shown = <<>>
    /\ failed = <<>>
    /\ runs = 0
    /\ f_resp = <<>>
    /\ s_resp = <<>>
    /\ level = ""

\* every FinancialIndicators whose scores are rubric grades
InitFinancialScorer ==
    /\ variant = "scorer"
    /\ pc = "input"
    /\ \E sc \in [1..8 -> RubricScores] : fi = <<FinancialIndicators(sc, NoEvidence(8))>>
    /\ si = <<>>
    /\ ratio = FloatOfInt(0)
    /\ HarnessRest

\* f_score = compute_financial_score(fi); f_score_normalized = (f_score / 16) * 10
ScoreFinancial(v) ==
    /\ pc = "input"
    /\ fi # <<>>
    /\ pc' = "scored"
    /\ variant' = v
    /\ f_score' = compute_financial_score(v, fi[1])
    /\ f_score_normalized' = NormalizeFinancial(f_score')
    /\ UNCHANGED <<credential, financial_file, sustainability_file, doc, fi, si, s_score,
                   s_score_normalized, overall, quality, matrix, tmpfiles, vstores, calls,
                   shown, failed, runs, f_resp, s_resp, ratio, level>>

ScoreFinancialApp == ScoreFinancial("app")
ScoreFinancialCli == ScoreFinancial("cli")

NextFinancialScorer == ScoreFinancialApp \/ ScoreFinancialCli

SpecFinancialScorer == InitFinancialScorer /\ [][NextFinancialScorer]_vars

\* every SustainabilityIndicators with boolean flags
InitSustainabilityScorer ==
    /\ variant = "scorer"
    /\ pc = "input"
    /\ \E fl \in [1..15 -> BOOLEAN] : si = <<SustainabilityIndicators(fl, NoEvidence(15))>>
    /\ fi = <<>>
    /\ ratio = FloatOfInt(0)
    /\ HarnessRest

\* s_score = compute_sustainability_score(si); s_score_normalized = (s_score / 15) * 10
ScoreSustainability(v) ==
    /\ pc = "input"
    /\ si # <<>>
    /\ pc' = "scored"
    /\ variant' = v
    /\ s_score' = compute_sustainability_score(v, si[1])
    /\ s_score_normalized' = NormalizeSustainability(s_score')
    /\ UNCHANGED <<credential, financial_file, sustainability_file, doc, fi, si, f_score,
                   f_score_normalized, overall, quality, matrix, tmpfiles, vstores, calls,
                   shown, failed, runs, f_resp, s_resp, ratio, level>>

ScoreSustainabilityApp == ScoreSustainability("app")
ScoreSustainabilityCli == ScoreSustainability("cli")

\* quality = compute_disclosure_quality(si); render_disclosure_matrix(quality)
ClassifyDisclosure ==
    /\ pc = "input"
    /\ si # <<>>
    /\ pc' = "classified"
    /\ variant' = "app"
    /\ quality' = <<compute_disclosure_quality(si[1])>>
    /\ matrix' = <<render_disclosure_matrix(quality'[1])>>
    /\ UNCHANGED <<credential, financial_file, sustainability_file, doc, fi, si, f_score,
                   s_score, f_score_normalized, s_score_normalized, overall, tmpfiles,
                   vstores, calls, shown, failed, runs, f_resp, s_resp, ratio, level>>

NextSustainabilityScorer ==
    ScoreSustainabilityApp \/ ScoreSustainabilityCli \/ ClassifyDisclosure

SpecSustainabilityScorer == InitSustainabilityScorer /\ [][NextSustainabilityScorer]_vars

\* the ratios n/d with d <= MaxDen, from -1 to 2
Ratios == {Rat(n, d) : n \in (-MaxDen)..(2 * MaxDen), d \in 1..MaxDen}

InitLevel ==
    /\ variant = "scorer"
    /\ pc = "input"
    /\ ratio \in {r \in Ratios : FloatGE(r, -1, 1) /\ FloatLE(r, FloatOfInt(2))}
    /\ fi = <<>>
    /\ si = <<>>
    /\ HarnessRest

ApplyToLevel ==
    /\ pc = "input"
    /\ pc' = "bucketed"
    /\ level' = to_level(ratio)
    /\ UNCHANGED <<variant, credential, financial_file, sustainability_file, doc, fi, si,
                   f_score, s_score, f_score_normalized, s_score_normalized, overall,
                   quality, matrix, tmpfiles, vstores, calls, shown, failed, runs, f_resp,
                   s_resp, ratio>>

NextLevel == ApplyToLevel

SpecLevel == InitLevel /\ [][NextLevel]_vars

(***************************************************************************)
(* Properties of the scorers                                               *)
(***************************************************************************)

(***************************************************************************)
(* Both scripts on the same records: the scoring lines of main()           *)
(***************************************************************************)

\* a financial record alone (every record of rubric grades), a sustainability
\* record alone (every boolean record), or a pair of records
InitVariants ==
    /\ variant = "scorer"
    /\ pc = "input"
    /\ \/ /\ \E sc \in [1..8 -> RubricScores] :
                fi = <<FinancialIndicators(sc, NoEvidence(8))>>
          /\ si = <<>>
       \/ /\ fi = <<>>
          /\ \E fl \in [1..15 -> BOOLEAN] :
                si = <<SustainabilityIndicators(fl, NoEvidence(15))>>
       \/ /\ \E t \in 0..16 :
                fi = <<FinancialIndicators(LadderScores(t, None, 0), SomeEvidence(8))>>
          /\ \E c \in 0..12, r \in 0..3 :
                si = <<SustainabilityIndicators(LadderFlags(c, r), SomeEvidence(15))>>
    /\ financial_file = (fi # <<>>)
    /\ sustainability_file = (si # <<>>)
    /\ credential = TRUE
    /\ doc = "none"
    /\ f_score = 0
    /\ s_score = 0
    /\ f_score_normalized = FloatOfInt(0)
    /\ s_score_normalized = FloatOfInt(0)
    /\ overall = <<>>
    /\ quality = <<>>
    /\ matrix = <<>>
    /\ tmpfiles = {}
    /\ vstores = {}
    /\ calls = <<>>
    /\ shown = <<>>
    /\ failed = <<>>
    /\ runs = 0
    /\ f_resp = <<>>
    /\ s_resp = <<>>
    /\ ratio = FloatOfInt(0)
    /\ level = ""

\* main() of script v from the scoring of the records to the overall score
ScoreAs(v) ==
    /\ pc = "input"
    /\ pc' = "scored"
    /\ variant' = v
    /\ f_score' = (IF financial_file THEN compute_financial_score(v, fi[1]) ELSE 0)
    /\ f_score_normalized' =
          (IF financial_file THEN NormalizeFinancial(f_score') ELSE FloatOfInt(0))
    /\ s_score' = (IF sustainability_file THEN compute_sustainability_score(v, si[1]) ELSE 0)
    /\ s_score_normalized' =
          (IF sustainability_file THEN NormalizeSustainability(s_score') ELSE FloatOfInt(0))
    /\ overall' = <<OverallScore(financial_file, sustainability_file,
                                 f_score_normalized', s_score_normalized')>>
    /\ UNCHANGED <<credential, financial_file, sustainability_file, doc, fi, si, quality,
                   matrix, tmpfiles, vstores, calls, shown, failed, runs, f_resp, s_resp,
                   ratio, level>>

ScoreAsApp == ScoreAs("app")
ScoreAsCli == ScoreAs("cli")

NextVariants == ScoreAsApp \/ ScoreAsCli

SpecVariants == InitVariants /\ [][NextVariants]_vars

\* how many of the named fields of record r hold value v
CountOf(r, fields, v) == Cardinality({i \in DOMAIN fields : r[fields[i]] = v})

\* C1: for a financial record whose eight scores are rubric grades (0, 1, 2 or
\* null), compute_financial_score (both scripts) returns the sum of the non-null
\* scores, each null counting zero, and the result is at most 16.
C1_FinancialScoreIsSumOfNonNull ==
    (pc = "scored" /\ fi # <<>>) =>
        /\ f_score = CountOf(fi[1], FinScoreFields, 1) + 2 * CountOf(fi[1], FinScoreFields, 2)
        /\ f_score <= 16

\* C1 witness: a scored record with a null, a 1 and a 2 among its scores
C1_Witness ==
    /\ pc = "scored"
    /\ fi # <<>>
    /\ fi[1].fcf_score = None
    /\ fi[1].revenue_growth_score = 2
    /\ fi[1].inventory_score = 1
    /\ f_score = 9

\* C2: for a sustainability record with boolean flags, compute_sustainability_score
\* (both scripts) is the number of true flags among the 15 scored fields, is at
\* most 15, and stays the same when any evidence string is replaced.
C2_SustainabilityScoreCountsTrueFlags ==
    (pc = "scored" /\ si # <<>>) =>
        /\ s_score = CountOf(si[1], SusFlagFields, TRUE)
        /\ s_score <= 15
        /\ \A i \in 1..15 : \A e \in Evidence :
              compute_sustainability_score(variant,
                  [si[1] EXCEPT ![SusEvidenceFields[i]] = e]) = s_score

\* C2 witness: a scored record with seven true flags, the last flag false
C2_Witness ==
    /\ pc = "scored"
    /\ si # <<>>
    /\ variant = "cli"
    /\ ~si[1].supplier_audit_frequency
    /\ si[1].claims_have_specificity
    /\ s_score = 7

LevelRank(l) == CASE l = "Low" -> 0 [] l = "Medium" -> 1 [] l = "High" -> 2

\* C7: to_level gives High exactly when r >= 0.75, Medium exactly when
\* 0.4 <= r < 0.75 and Low otherwise; 0.75 and 0.4 themselves give High and
\* Medium, 1.0 gives High, 0.0 gives Low, and a larger ratio never gives a
\* lower level.
C7_LevelBuckets ==
    (pc = "bucketed") =>
        LET n == ratio[1]
            d == ratio[2]
        IN /\ (level = "High") <=> (4 * n >= 3 * d)
           /\ (level = "Medium") <=> (5 * n >= 2 * d /\ 4 * n < 3 * d)
           /\ (level = "Low") <=> (5 * n < 2 * d)
           /\ (ratio = <<3, 4>>) => (level = "High")
           /\ (ratio = <<2, 5>>) => (level = "Medium")
           /\ (ratio = <<1, 1>>) => (level = "High")
           /\ (ratio = <<0, 1>>) => (level = "Low")
           /\ \A r \in Ratios :
                 FloatLE(ratio, r) => LevelRank(level) <= LevelRank(to_level(r))

\* C7 witness: the boundary 0.75 has been bucketed
C7_Witness == pc = "bucketed" /\ ratio = <<3, 4>> /\ level = "High"

\* the 12 completeness fields and the 3 reliability fields, by position in SusFlagFields
CompletenessFields == [i \in 1..12 |-> SusFlagFields[IF i <= 8 THEN i ELSE i + 3]]
ReliabilityFields == [i \in 1..3 |-> SusFlagFields[i + 8]]

\* C8: compute_disclosure_quality returns completeness_ratio = (true flags among
\* the 12 GHG, automotive-target and environmental/compliance fields) / 12 and
\* reliability_ratio = (true flags among the 3 claim-quality fields) / 3, and
\* each level is the bucket of its own ratio.
C8_DisclosureRatios ==
    (pc = "classified" /\ si # <<>> /\ quality # <<>>) =>
        LET q == quality[1]
            c == CountOf(si[1], CompletenessFields, TRUE)
            r == CountOf(si[1], ReliabilityFields, TRUE)
        IN /\ q.completeness_ratio[1] * 12 = c * q.completeness_ratio[2]
           /\ q.reliability_ratio[1] * 3 = r * q.reliability_ratio[2]
           /\ q.completeness_ratio[2] > 0
           /\ q.reliability_ratio[2] > 0
           /\ q.completeness_level = to_level(q.completeness_ratio)
           /\ q.reliability_level = to_level(q.reliability_ratio)

\* C8 witness: a classified record whose two ratios differ (5/12 and 2/3)
C8_Witness ==
    /\ pc = "classified"
    /\ quality # <<>>
    /\ quality[1].completeness_ratio = <<5, 12>>
    /\ quality[1].reliability_ratio = <<2, 3>>

\* C9: a record with 8 of the 12 completeness flags true and all 3 reliability
\* flags true is classified completeness Medium and reliability High, and the
\* company's cell of the rendered matrix, at (reliability High, completeness
\* Medium), carries the risk label Medium.
C9_ScenarioMediumHigh ==
    (/\ pc = "classified" /\ si # <<>> /\ quality # <<>> /\ matrix # <<>>
     /\ CountOf(si[1], CompletenessFields, TRUE) = 8
     /\ CountOf(si[1], ReliabilityFields, TRUE) = 3) =>
        /\ quality[1].completeness_level = "Medium"
        /\ quality[1].reliability_level = "High"
        /\ \E cell \in MatrixCells(matrix[1]) : cell.is_company_cell
        /\ \A cell \in MatrixCells(matrix[1]) :
              cell.is_company_cell =>
                  cell.rel = "High" /\ cell.comp = "Medium" /\ cell.risk_label = "Medium"

\* C9 witness: the scenario's record (GHG and environmental flags true, the four
\* automotive-target flags false, claim-quality flags true) has been classified
C9_Witness ==
    /\ pc = "classified"
    /\ si # <<>>
    /\ completeness_flags(si[1]) =
          <<TRUE, TRUE, TRUE, TRUE, FALSE, FALSE, FALSE, FALSE, TRUE, TRUE, TRUE, TRUE>>
    /\ reliability_flags(si[1]) = <<TRUE, TRUE, TRUE>>
    /\ quality[1].completeness_ratio = <<2, 3>>
    /\ matrix # <<>>

(***************************************************************************)
(* Properties of the analysis pipeline                                     *)
(***************************************************************************)

\* the run has shown an item of one of `kinds` about document d
ShownAbout(d, kinds) == \E i \in DOMAIN shown : shown[i].doc = d /\ shown[i].item \in kinds

\* a reply from which no record can be built: not a JSON object, or a key is missing
Malformed(resp, keys) == resp.kind # "object" \/ \E k \in keys : k \notin DOMAIN resp.data

\* C3 (as claimed): every FinancialIndicators returned by extract_financial_indicators
\* has each of its eight scores in {0, 1, 2, null} and its eight evidence strings,
\* whatever JSON object the model returned.
C3_ExtractedScoresAreRubricGrades ==
    (fi # <<>>) =>
        \A i \in 1..8 :
            /\ fi[1][FinScoreFields[i]] \in RubricScores
            /\ fi[1][FinEvidenceFields[i]] \in Evidence

\* C4: when the model's reply is not a JSON object or lacks any one of the declared
\* keys, the extraction raises and yields no record; a record that is returned
\* holds, field by field, the values of the reply, never a default.
C4_MalformedReplyFailsExtraction ==
    /\ (f_resp # <<>> /\ Malformed(f_resp[1], FinKeys)) =>
           fi = <<>> /\ failed = <<"financial", "parse">>
    /\ (s_resp # <<>> /\ Malformed(s_resp[1], SusKeys)) =>
           si = <<>> /\ failed = <<"sustainability", "parse">>
    /\ (fi # <<>>) =>
           /\ f_resp # <<>>
           /\ ~Malformed(f_resp[1], FinKeys)
           /\ \A k \in FinKeys : fi[1][k] = f_resp[1].data[k]
    /\ (si # <<>>) =>
           /\ s_resp # <<>>
           /\ ~Malformed(s_resp[1], SusKeys)
           /\ \A k \in SusKeys : si[1][k] = s_resp[1].data[k]

\* C4 witness: after a financial record was extracted, the sustainability reply
\* is a JSON object without its last key and the extraction has raised
C4_Witness ==
    /\ s_resp # <<>>
    /\ s_resp[1].kind = "object"
    /\ DOMAIN s_resp[1].data = SusKeys \ {"audit_evidence"}
    /\ fi # <<>>
    /\ si = <<>>
    /\ failed = <<"sustainability", "parse">>

\* C5 (as claimed): the normalized scores are (score / 16) * 10 and
\* (score / 15) * 10, and each lies between 0 and 10 inclusive.
C5_NormalizedLinearWithinZeroTen ==
    /\ f_score_normalized[1] * 16 = f_score * 10 * f_score_normalized[2]
    /\ s_score_normalized[1] * 15 = s_score * 10 * s_score_normalized[2]
    /\ f_score_normalized[2] > 0
    /\ s_score_normalized[2] > 0
    /\ 0 <= f_score_normalized[1]
    /\ f_score_normalized[1] <= 10 * f_score_normalized[2]
    /\ 0 <= s_score_normalized[1]
    /\ s_score_normalized[1] <= 10 * s_score_normalized[2]

\* C6: once assigned, the overall score is the mean of the two normalized scores
\* when both records exist, the one normalized score when only one exists, and 0
\* when neither exists; the interactive script never assigns it when neither exists.
C6_OverallIsMeanOrSingle ==
    /\ (overall # <<>>) =>
           LET o == overall[1]
               fn == f_score_normalized
               sn == s_score_normalized
           IN /\ o[2] > 0
              /\ (fi # <<>> /\ si # <<>>) =>
                     2 * o[1] * fn[2] * sn[2] = (fn[1] * sn[2] + sn[1] * fn[2]) * o[2]
              /\ (fi # <<>> /\ si = <<>>) => o = fn
              /\ (fi = <<>> /\ si # <<>>) => o = sn
              /\ (fi = <<>> /\ si = <<>>) => o = <<0, 1>>
    /\ (variant = "app" /\ fi = <<>> /\ si = <<>>) => overall = <<>>

\* C6 witness: both records exist, with scores 9/16 and 11/15, and the overall
\* score has been assigned
C6_Witness ==
    /\ overall # <<>>
    /\ fi # <<>>
    /\ si # <<>>
    /\ f_score = 9
    /\ s_score = 11
    /\ overall[1] = <<311, 48>>

\* C10: when indexing, retrieval or extraction of a document fails, the run ends
\* there (interactive: the error is displayed), and no record, score, breakdown,
\* matrix, overall score or summary derived from that document exists or is shown.
C10_FailureAbortsDocument ==
    (failed # <<>> /\ failed[1] \in {"financial", "sustainability"}) =>
        /\ failed[2] \in {"load", "embed", "retrieve", "llm", "parse"}
        /\ pc \in {"done", "crashed"}
        /\ overall = <<>>
        /\ ~ShownAbout("both", {"overall", "summary", "download"})
        /\ ~ShownAbout(failed[1], {"score", "breakdown", "matrix", "raw", "success"})
        /\ (variant = "app") =>
               /\ shown # <<>>
               /\ shown[Len(shown)].item = "exception"
               /\ shown[Len(shown)].doc = failed[1]
        /\ (failed[1] = "financial") =>
               /\ fi = <<>>
               /\ f_score = 0
               /\ f_score_normalized = <<0, 1>>
        /\ (failed[1] = "sustainability") =>
               /\ si = <<>>
               /\ s_score = 0
               /\ s_score_normalized = <<0, 1>>
               /\ quality = <<>>
               /\ matrix = <<>>

\* C10 witness: the financial document was analysed and scored, then the
\* retrieval for the sustainability document failed
C10_Witness ==
    /\ failed = <<"sustainability", "retrieve">>
    /\ fi # <<>>
    /\ f_score = 9
    /\ "sustainability" \in vstores


(***************************************************************************)
(* The order of the stages, and what a failure leaves undone               *)
(***************************************************************************)

\* the calls of the run that are about document d and are one of ops
CallsOf(d, ops) == SelectSeq(calls, LAMBDA c : c.doc = d /\ c.op \in ops)

\* C11: when loading or indexing a document fails, the run makes no retrieval
\* and no model call for that document, no vector store of it exists and no
\* record of it is produced.
C11_LoadFailureSkipsExtraction ==
    (failed # <<>> /\ failed[2] \in {"load", "embed"}) =>
        /\ CallsOf(failed[1], {"retrieve", "llm", "score"}) = <<>>
        /\ failed[1] \notin vstores
        /\ (failed[1] = "financial") => fi = <<>> /\ f_resp = <<>>
        /\ (failed[1] = "sustainability") => si = <<>> /\ s_resp = <<>>

\* C11 witness: the financial document went through extraction, then indexing
\* the sustainability document failed
C11_Witness ==
    /\ failed = <<"sustainability", "embed">>
    /\ fi # <<>>
    /\ CallsOf("financial", {"llm"}) # <<>>
    /\ CallsOf("sustainability", {"load"}) # <<>>

\* C12: app: an exception of the analysis is caught by main() and shown as an
\* error followed by the exception; the session is not ended by it, and while
\* the press bound allows it Analyze can be pressed again.
C12_AppCatchesAnalysisFailure ==
    (variant = "app") =>
        /\ pc # "crashed"
        /\ (failed # <<>>) =>
              /\ pc = "done"
              /\ Len(shown) >= 2
              /\ shown[Len(shown) - 1] = Item("error", failed[1], failed[2])
              /\ shown[Len(shown)] = Item("exception", failed[1], failed[2])
              /\ (runs < MaxRuns) => ENABLED Analyze

\* C12 witness: the first press failed while loading the financial upload (its
\* temporary file is still there), the second press ran to the summary
C12_Witness ==
    /\ variant = "app"
    /\ runs = 2
    /\ <<1, "financial">> \in tmpfiles
    /\ pc = "done"
    /\ failed = <<>>
    /\ ShownAbout("both", {"summary"})

\* something of one of kinds is on display
ShownAny(kinds) == \E i \in DOMAIN shown : shown[i].item \in kinds

\* C13 as stated: cli: after an exception in any stage the run is over and
\* neither the scores section nor the investor summary was printed.
C13_CliFailurePrintsNoScores ==
    (variant = "cli" /\ failed # <<>>) =>
        /\ pc = "crashed"
        /\ ~ShownAny({"score", "breakdown", "overall"})
        /\ ~ShownAny({"summary"})

\* C13 amended: cli: an exception ends the run where it is raised, no step
\* follows and the investor summary is not printed; the scores section is not
\* printed either, except when the failing stage is the summary call, which
\* main() makes after it printed the raw indicators and the scores.
C13_CliFailureEndsRun ==
    (variant = "cli" /\ failed # <<>>) =>
        /\ pc = "crashed"
        /\ ~ENABLED Next
        /\ ~ShownAny({"summary"})
        /\ (failed[2] # "summary") =>
              /\ ~ShownAny({"raw", "score", "breakdown", "overall"})
              /\ overall = <<>>
        /\ (failed[2] = "summary") =>
              /\ ShownAbout("financial", {"score"})
              /\ ShownAbout("sustainability", {"score"})
              /\ shown[Len(shown)] = Item("overall", "both", overall[1])
              /\ calls[Len(calls)].op = "llm"
              /\ calls[Len(calls)].doc = "both"

\* C13 witness: cli: both documents were scored and the scores printed, then
\* the summary call raised
C13_Witness ==
    /\ variant = "cli"
    /\ failed = <<"both", "summary">>
    /\ pc = "crashed"
    /\ ShownAbout("financial", {"score"})
    /\ ShownAbout("sustainability", {"score"})

\* C14: without the credential both variants halt at start-up: main() is never
\* entered, nothing is staged, loaded, indexed or sent to a model, and no step
\* but the credential check itself is possible.
C14_NoCredentialNoAnalysis ==
    (~credential) =>
        /\ pc \in {"start", "stopped", "crashed"}
        /\ runs = 0
        /\ calls = <<>>
        /\ tmpfiles = {}
        /\ vstores = {}
        /\ fi = <<>> /\ si = <<>>
        /\ (pc = "stopped") => variant = "app" /\ shown = <<Item("error", "config", <<>>)>>
        /\ (pc = "crashed") => variant = "cli" /\ failed = <<"config", "credential">>
        /\ (pc # "start") => ~ENABLED Next

\* C14 witness: the app was started without the credential and stopped on the
\* configuration error
C14_Witness ==
    /\ ~credential
    /\ variant = "app"
    /\ pc = "stopped"
    /\ ShownAbout("config", {"error"})

\* the positions in the call log of the calls about document d that are one of ops
CallIndices(d, ops) == {i \in DOMAIN calls : calls[i].doc = d /\ calls[i].op \in ops}

\* C15: the summary generator is reached, and called, only when both documents
\* were supplied and both records were produced, and only after both scores
\* were computed; with exactly one document supplied it is never called.
C15_SummaryNeedsBothRecords ==
    /\ (pc = "summary" \/ CallIndices("both", {"llm"}) # {}) =>
          /\ financial_file /\ sustainability_file
          /\ fi # <<>> /\ si # <<>>
          /\ CallIndices("financial", {"score"}) # {}
          /\ CallIndices("sustainability", {"score"}) # {}
          /\ \A i \in CallIndices("both", {"llm"}) :
                \A j \in CallIndices("financial", {"score"})
                           \cup CallIndices("sustainability", {"score"}) : j < i
          /\ f_score = compute_financial_score(variant, fi[1])
          /\ s_score = compute_sustainability_score(variant, si[1])
    /\ (runs > 0 /\ financial_file # sustainability_file) =>
          /\ CallIndices("both", {"llm"}) = {}
          /\ ~ShownAny({"summary"})

\* C15 witness: cli: both documents analysed, the summary generator called and
\* its text printed
C15_Witness ==
    /\ variant = "cli"
    /\ pc = "done"
    /\ CallIndices("both", {"llm"}) # {}
    /\ ShownAbout("both", {"summary"})
    /\ fi # <<>> /\ si # <<>>

\* the financial record r with each null score replaced by 0
NullsAsZero(r) ==
    [k \in DOMAIN r |->
        IF k \in Range(FinScoreFields) /\ r[k] = None THEN 0 ELSE r[k]]

\* C16: a financial record with null scores gets the score, and the normalized
\* score, of the record with each null replaced by 0; the normalized score is
\* score / 16 * 10 however many scores are null.
C16_NullScoresCountAsZero ==
    (pc = "scored" /\ fi # <<>>) =>
        /\ f_score = compute_financial_score(variant, NullsAsZero(fi[1]))
        /\ f_score_normalized = NormalizeFinancial(compute_financial_score(variant, NullsAsZero(fi[1])))
        /\ f_score_normalized[1] * 16 = f_score * 10 * f_score_normalized[2]

\* C16 witness: cli: a record with two null scores and six scores of 2, scored 12
\* and normalized to 7.5
C16_Witness ==
    /\ pc = "scored"
    /\ variant = "cli"
    /\ fi # <<>>
    /\ fi[1].fcf_score = None
    /\ fi[1].capex_score = None
    /\ CountOf(fi[1], FinScoreFields, 2) = 6
    /\ f_score = 12
    /\ f_score_normalized = <<15, 2>>

\* C17 as stated: app: when retrieval and extraction of a document begin, its
\* temporary file no longer exists.
C17_TempFileGoneBeforeRetrieval ==
    (variant = "app" /\ pc \in {"retrieve1", "retrieve2", "retrieve3", "llm"}) =>
        <<runs, doc>> \notin tmpfiles

\* C17 amended: app: the temporary file of a document exists from its staging
\* through load, split, indexing, retrieval, extraction and scoring; it is
\* deleted after the score was computed, as the last step of the document's
\* block, and is gone in every later step that no failure ended.
C17_TempFileDeletedAfterScoring ==
    (variant = "app" /\ runs > 0) =>
        /\ (pc \in {"load", "split", "embed", "retrieve1", "retrieve2", "retrieve3",
                    "llm", "score", "unlink"}) =>
              /\ <<runs, doc>> \in tmpfiles
              /\ CallIndices(doc, {"unlink"}) = {}
        /\ \A d \in {"financial", "sustainability"} :
              /\ (CallIndices(d, {"unlink"}) # {}) =>
                    /\ <<runs, d>> \notin tmpfiles
                    /\ \A i \in CallIndices(d, {"unlink"}) :
                          /\ i > 1
                          /\ calls[i - 1] = Call("score", d, 0)
              /\ (failed = <<>> /\ pc \in {"overall", "display", "summary", "raw", "done"}) =>
                    <<runs, d>> \notin tmpfiles

\* C17 witness: app: the sustainability upload is about to be sent to the model,
\* its temporary file still on disk, the one of the financial upload deleted
C17_Witness ==
    /\ variant = "app"
    /\ pc = "llm"
    /\ doc = "sustainability"
    /\ <<runs, "sustainability">> \in tmpfiles
    /\ CallIndices("financial", {"unlink"}) # {}
    /\ <<runs, "financial">> \notin tmpfiles

\* C18: app: when an analysis invocation has ended, with results or with an
\* error on display, no temporary file that invocation created exists.
C18_NoTempFileAfterInvocation ==
    (variant = "app" /\ pc = "done") =>
        \A t \in tmpfiles : t[1] # runs

\* the stages of a document's analysis
Stages == {"load", "split", "embed", "retrieve", "llm", "score"}

\* the stages document d went through, in the order of the call log
StagesOf(d) ==
    LET cs == CallsOf(d, Stages) IN [i \in 1..Len(cs) |-> cs[i].op]

\* the stages of a complete analysis of document d, in order
StageOrder(d) ==
    <<"load", "split", "embed">> \o [i \in 1..Len(Retrievals(d)) |-> "retrieve"]
                                 \o <<"llm", "score">>

IsPrefix(s, t) == Len(s) <= Len(t) /\ s = SubSeq(t, 1, Len(s))

\* C19: the stages of each document run in the order load, split, index,
\* retrieve (once per topic), extract, score; every stage of the financial
\* document precedes every stage of the sustainability document, which starts
\* only when the financial document is scored; the summary call is the last call.
C19_StagesRunInOrder ==
    /\ \A d \in {"financial", "sustainability"} : IsPrefix(StagesOf(d), StageOrder(d))
    /\ \A i \in CallIndices("financial", Stages) :
          \A j \in CallIndices("sustainability", Stages) : i < j
    /\ (StagesOf("sustainability") # <<>> /\ financial_file) =>
          StagesOf("financial") = StageOrder("financial")
    /\ \A i \in CallIndices("both", {"llm"}) :
          /\ i = Len(calls)
          /\ StagesOf("financial") = StageOrder("financial")
          /\ StagesOf("sustainability") = StageOrder("sustainability")

\* C19 witness: cli: both documents went through all their stages and the
\* summary call was made
C19_Witness ==
    /\ variant = "cli"
    /\ StagesOf("financial") = StageOrder("financial")
    /\ StagesOf("sustainability") = StageOrder("sustainability")
    /\ CallIndices("both", {"llm"}) = {Len(calls)}

\* how many calls of the run are about document d and are one of ops
Times(d, ops) == Cardinality(CallIndices(d, ops))

\* C20: within one run each document is loaded, split and indexed at most
\* once, each of its retrievals and its extraction call is made at most once,
\* and the summary call is made at most once; this holds after a failure too,
\* whose failing call is the last call of the run.
C20_NoStageRetried ==
    /\ \A d \in {"financial", "sustainability"} :
          /\ \A op \in {"tmp", "load", "split", "embed", "llm", "score", "unlink"} :
                Times(d, {op}) <= 1
          /\ Times(d, {"retrieve"}) <= Len(Retrievals(d))
          /\ \A i, j \in CallIndices(d, {"retrieve"}) :
                (calls[i].arg = calls[j].arg) => i = j
    /\ Times("both", {"llm"}) <= 1
    /\ (failed # <<>> /\ calls # <<>>) => calls[Len(calls)].doc = failed[1]

\* C20 witness: the extraction call for the sustainability document raised; it
\* was made once, as was the one for the financial document
C20_Witness ==
    /\ failed = <<"sustainability", "llm">>
    /\ Times("sustainability", {"llm"}) = 1
    /\ Times("sustainability", {"load"}) = 1
    /\ Times("financial", {"llm"}) = 1

(***************************************************************************)
(* Isolation of the documents, retrieval passes, scales and tables         *)
(***************************************************************************)

\* the other document of the pair
OtherDoc(d) == IF d = "financial" THEN "sustainability" ELSE "financial"

\* document d was uploaded in this run
Uploaded(d) == IF d = "financial" THEN financial_file ELSE sustainability_file

\* C21: app: when the analysis of one uploaded document failed and the run has
\* ended, the other uploaded document was analysed and its score is on display.
C21_FailureLeavesOtherDocument ==
    (variant = "app" /\ pc = "done" /\ failed # <<>>
        /\ failed[1] \in {"financial", "sustainability"}
        /\ Uploaded(OtherDoc(failed[1]))) =>
        /\ CallIndices(OtherDoc(failed[1]), {"llm"}) # {}
        /\ ShownAbout(OtherDoc(failed[1]), {"score"})

\* the retrieval passes made for document d, in the order of the call log
PassesOf(d) ==
    LET cs == CallsOf(d, {"retrieve"}) IN [i \in 1..Len(cs) |-> cs[i].arg]

\* C22: the retrievals of the sustainability document are GHG, automotive
\* targets, claims and compliance, in that order and with k = 8; the one of the
\* financial document has k = 10; the single extraction call of a document is
\* made after all its retrievals, on the contexts concatenated in that order.
C22_RetrievalPassesBeforeExtraction ==
    /\ IsPrefix(PassesOf("financial"), <<(<<"financial metrics", 10>>)>>)
    /\ IsPrefix(PassesOf("sustainability"),
                <<(<<"ghg", 8>>), (<<"automotive targets", 8>>),
                  (<<"claims and compliance", 8>>)>>)
    /\ \A d \in {"financial", "sustainability"} :
          /\ Times(d, {"llm"}) <= 1
          /\ \A i \in CallIndices(d, {"llm"}) :
                /\ Len(PassesOf(d)) = (IF d = "financial" THEN 1 ELSE 3)
                /\ \A j \in CallIndices(d, {"retrieve"}) : j < i
                /\ calls[i].arg = PassesOf(d)
                /\ d \in vstores

\* C22 witness: the extraction call of the sustainability document was made,
\* after its three retrievals
C22_Witness ==
    /\ Times("sustainability", {"llm"}) = 1
    /\ Times("sustainability", {"retrieve"}) = 3
    /\ si # <<>>
    /\ Times("financial", {"llm"}) = 1
    /\ Times("financial", {"retrieve"}) = 1

\* the steps of a document's block
BlockSteps == {"tmp", "load", "split", "embed", "retrieve1", "retrieve2", "retrieve3",
               "llm", "score", "unlink"}

\* a step of the block of the financial document leaves everything of the
\* sustainability document as it is, and the other way round
DocumentFrame ==
    /\ (pc \in BlockSteps /\ doc = "financial") =>
          /\ si' = si /\ s_resp' = s_resp
          /\ s_score' = s_score /\ s_score_normalized' = s_score_normalized
          /\ ("sustainability" \in vstores') = ("sustainability" \in vstores)
          /\ CallsOf("sustainability", Stages)' = CallsOf("sustainability", Stages)
    /\ (pc \in BlockSteps /\ doc = "sustainability") =>
          /\ fi' = fi /\ f_resp' = f_resp
          /\ f_score' = f_score /\ f_score_normalized' = f_score_normalized
          /\ ("financial" \in vstores') = ("financial" \in vstores)
          /\ CallsOf("financial", Stages)' = CallsOf("financial", Stages)

\* a record was extracted from the index of its own document alone
OwnIndexOnly ==
    /\ (fi # <<>>) =>
          /\ "financial" \in vstores
          /\ fi = ParseFinancial(f_resp[1]).value
          /\ \A i \in CallIndices("financial", {"llm"}) :
                calls[i].arg = combined_context("financial")
    /\ (si # <<>>) =>
          /\ "sustainability" \in vstores
          /\ si = ParseSustainability(s_resp[1]).value
          /\ \A i \in CallIndices("sustainability", {"llm"}) :
                calls[i].arg = combined_context("sustainability")

\* C23: each record is extracted from the index of its own document, and a step
\* that processes one document leaves the index, the record, the score and the
\* calls of the other document unchanged.
C23_NoStateCrossesDocuments == []OwnIndexOnly /\ [][DocumentFrame]_vars

\* C23 witness: app: the sustainability document was scored after the financial
\* one, whose score of 9 is still there
C23_Witness ==
    /\ variant = "app"
    /\ doc = "sustainability"
    /\ pc = "unlink"
    /\ si # <<>> /\ s_score = 8
    /\ fi # <<>> /\ f_score = 9
    /\ f_score_normalized = <<45, 8>>

\* C24: a financial record with eight scores of 2 scores 16 and normalizes to
\* 10.0; one with eight null scores scores 0 and normalizes to 0.0 (both scripts).
C24_FinancialScaleExtremes ==
    (pc = "scored" /\ fi # <<>>) =>
        /\ (CountOf(fi[1], FinScoreFields, 2) = 8) =>
              f_score = 16 /\ f_score_normalized = FloatOfInt(10)
        /\ (CountOf(fi[1], FinScoreFields, None) = 8) =>
              f_score = 0 /\ f_score_normalized = FloatOfInt(0)
        /\ (f_score = 16) => CountOf(fi[1], FinScoreFields, 2) = 8
        /\ FloatLE(f_score_normalized, FloatOfInt(10))

\* C24 witness: app: the record with eight scores of 2 was scored
C24_Witness ==
    /\ pc = "scored"
    /\ variant = "app"
    /\ fi # <<>>
    /\ \A i \in 1..8 : fi[1][FinScoreFields[i]] = 2
    /\ f_score = 16
    /\ f_score_normalized = <<10, 1>>

\* C25: on every financial record and every sustainability record the scorers
\* of src/main.py and of src/app.py return the same value, and the normalized
\* and overall scores either script derives are those the other derives.
C25_VariantsScoreIdentically ==
    (pc = "scored") =>
        /\ (fi # <<>>) =>
              /\ compute_financial_score_cli(fi[1]) = compute_financial_score_app(fi[1])
              /\ \A v \in {"app", "cli"} :
                    /\ f_score = compute_financial_score(v, fi[1])
                    /\ f_score_normalized = NormalizeFinancial(compute_financial_score(v, fi[1]))
        /\ (si # <<>>) =>
              /\ compute_sustainability_score_cli(si[1]) = compute_sustainability_score_app(si[1])
              /\ \A v \in {"app", "cli"} :
                    /\ s_score = compute_sustainability_score(v, si[1])
                    /\ s_score_normalized =
                          NormalizeSustainability(compute_sustainability_score(v, si[1]))
        /\ \A v \in {"app", "cli"} :
              overall =
                 <<OverallScore(fi # <<>>, si # <<>>,
                      IF fi # <<>> THEN NormalizeFinancial(compute_financial_score(v, fi[1]))
                                   ELSE FloatOfInt(0),
                      IF si # <<>>
                      THEN NormalizeSustainability(compute_sustainability_score(v, si[1]))
                      ELSE FloatOfInt(0))>>

\* C25 witness: the cli scored a pair of records: 9 of 16 and 11 of 15, overall
\* the mean of 5.625 and 7.333...
C25_Witness ==
    /\ pc = "scored"
    /\ variant = "cli"
    /\ fi # <<>> /\ si # <<>>
    /\ f_score = 9
    /\ s_score = 11
    /\ overall = <<(<<311, 48>>)>>

\* C26: for every boolean record the sustainability score is the number of true
\* completeness flags (12) plus the number of true reliability flags (3), so the
\* two groups share no field and leave none out, and it is the sum of the four
\* category subtotals shown, which are at most 4, 4, 3 and 4.
C26_ScoreSplitsIntoFlagGroups ==
    (pc = "scored" /\ si # <<>>) =>
        LET comp == completeness_flags(si[1])
            rel == reliability_flags(si[1])
            sub == SustainabilityBreakdown(si[1])
        IN /\ Len(comp) = 12 /\ Len(rel) = 3
           /\ s_score = SumFlags(comp) + SumFlags(rel)
           /\ s_score = sub[1] + sub[2] + sub[3] + sub[4]
           /\ sub[1] <= 4 /\ sub[2] <= 4 /\ sub[3] <= 3 /\ sub[4] <= 4
           /\ sub[3] = SumFlags(rel)
           /\ (s_score = 15) => sub = <<4, 4, 3, 4>>

\* C26 witness: a scored record with 7 completeness flags and 2 reliability
\* flags true
C26_Witness ==
    /\ pc = "scored"
    /\ si # <<>>
    /\ SumFlags(completeness_flags(si[1])) = 7
    /\ SumFlags(reliability_flags(si[1])) = 2
    /\ s_score = 9

\* the level that the thresholds high and medium on the number n of true flags give
LevelOfCount(n, high, medium) ==
    IF n >= high THEN "High" ELSE IF n >= medium THEN "Medium" ELSE "Low"

\* C27: completeness is High with at least 9 of the 12 flags true, Medium with 5
\* to 8 and Low with at most 4; reliability is High with all 3 flags true,
\* Medium with exactly 2 and Low with at most 1.
C27_LevelsByFlagCount ==
    (pc = "classified" /\ si # <<>> /\ quality # <<>>) =>
        LET c == CountOf(si[1], CompletenessFields, TRUE)
            r == CountOf(si[1], ReliabilityFields, TRUE)
        IN /\ quality[1].completeness_level = LevelOfCount(c, 9, 5)
           /\ quality[1].reliability_level = LevelOfCount(r, 3, 2)
           /\ (quality[1].completeness_level = "High") <=> (c >= 9)
           /\ (quality[1].completeness_level = "Medium") <=> (c \in 5..8)
           /\ (quality[1].completeness_level = "Low") <=> (c <= 4)
           /\ (quality[1].reliability_level = "High") <=> (r = 3)
           /\ (quality[1].reliability_level = "Medium") <=> (r = 2)
           /\ (quality[1].reliability_level = "Low") <=> (r <= 1)

\* C27 witness: a classified record at two thresholds: 9 completeness flags
\* (High) and 2 reliability flags (Medium)
C27_Witness ==
    /\ pc = "classified"
    /\ si # <<>> /\ quality # <<>>
    /\ CountOf(si[1], CompletenessFields, TRUE) = 9
    /\ CountOf(si[1], ReliabilityFields, TRUE) = 2
    /\ quality[1].completeness_level = "High"
    /\ quality[1].reliability_level = "Medium"

\* the order of the risk labels
RiskRank(label) ==
    CASE label = "Low" -> 0 [] label = "Medium" -> 1 [] label = "Med-High" -> 2
      [] label = "High" -> 3

\* C28: the rendered matrix has one cell for each of the 9 (reliability,
\* completeness) pairs; the risk label is symmetric in the two levels, does not
\* rise when either level rises, is Low only at (High, High), and each label
\* has one colour.
C28_RiskTableSymmetricMonotone ==
    (pc = "classified" /\ matrix # <<>>) =>
        LET cells == MatrixCells(matrix[1])
            L == Range(levels)
        IN /\ Cardinality(cells) = 9
           /\ \A rel \in L, comp \in L :
                 \E c \in cells : c.rel = rel /\ c.comp = comp
           /\ \A c \in cells :
                 /\ c.risk_label \in {"Low", "Medium", "Med-High", "High"}
                 /\ <<c.risk_label, c.bg_color>> = risk_map(c.rel, c.comp)
                 /\ (c.risk_label = "Low") <=> (c.rel = "High" /\ c.comp = "High")
           /\ \A c, d \in cells :
                 /\ (c.rel = d.comp /\ c.comp = d.rel) => c.risk_label = d.risk_label
                 /\ (LevelRank(c.rel) <= LevelRank(d.rel)
                       /\ LevelRank(c.comp) <= LevelRank(d.comp)) =>
                       RiskRank(d.risk_label) <= RiskRank(c.risk_label)
                 /\ (c.risk_label = d.risk_label) <=> (c.bg_color = d.bg_color)

\* C28 witness: the matrix of a record classified (Low reliability, High
\* completeness), whose cell reads Med-High as does the cell of (High, Low)
C28_Witness ==
    /\ pc = "classified"
    /\ matrix # <<>>
    /\ quality[1].reliability_level = "Low"
    /\ quality[1].completeness_level = "High"
    /\ \E c \in MatrixCells(matrix[1]) : c.is_company_cell /\ c.risk_label = "Med-High"
    /\ \E c \in MatrixCells(matrix[1]) :
          c.rel = "High" /\ c.comp = "Low" /\ c.risk_label = "Med-High"

\* C29: app: after Analyze was pressed with no file uploaded the run is over
\* with one error on display and nothing else: no call was made, no temporary
\* file of this run and no index exists, and no record or score was produced.
C29_NoFileNoAnalysis ==
    (variant = "app" /\ runs > 0 /\ ~financial_file /\ ~sustainability_file) =>
        /\ pc = "done"
        /\ shown = <<Item("error", "none", "no report")>>
        /\ calls = <<>>
        /\ \A t \in tmpfiles : t[1] # runs
        /\ vstores = {}
        /\ fi = <<>> /\ si = <<>>
        /\ f_score = 0 /\ s_score = 0
        /\ overall = <<>>
        /\ failed = <<>>

\* C29 witness: app: the first press analysed a financial upload, the second
\* press came with no file
C29_Witness ==
    /\ variant = "app"
    /\ runs = 2
    /\ ~financial_file /\ ~sustainability_file
    /\ pc = "done"
    /\ ShownAbout("none", {"error"})

\* an analysis is under way
Running == pc \notin {"start", "idle", "done", "stopped", "crashed"}

\* the run has ended: results or an error shown, or the process has exited
Final == pc \in {"done", "stopped", "crashed"}

\* C30: a run makes at most 20 calls (each stage of each document once, the
\* client creations and the summary call), and an analysis under way always
\* reaches a final state.
C30_RunTerminates ==
    /\ [](Len(calls) <= Len(StageOrder("financial")) + Len(StageOrder("sustainability")) + 6)
    /\ (Running ~> Final)

\* C30 witness: app: a run of both documents has ended with the summary shown,
\* after 20 calls
C30_Witness ==
    /\ variant = "app"
    /\ pc = "done"
    /\ failed = <<>>
    /\ Len(calls) = 20
    /\ ShownAbout("both", {"summary"})

====
